---- MODULE Spec2Model ----
(***************************************************************************)
(* Cache-aside access layer (RedisCache) and the two-window rate limiter   *)
(* (SecurityMiddleware.check_rate_limit, rate_limit decorator) of the      *)
(* deepsearch backend, as a state machine over the shared key-value store. *)
(***************************************************************************)
EXTENDS Integers, Sequences, FiniteSets, TLC

VARIABLES
    store,        \* the external key-value store: store key -> [val, ttl]
    redis_cache,  \* the process-wide RedisCache instance (its three fields)
    req,          \* the requests in flight: slot -> the handler's locals and position
    writes,       \* number of RedisCache.set calls made by other callers so far
    ticks,        \* number of clock advances so far
    clean,        \* no store failure, foreign write or clock advance has happened yet
    allowed,      \* client -> number of check_rate_limit calls that returned True (while clean)
    hist,         \* results of the sequential checks of hist_client (while clean)
    hist_client,  \* the client whose sequential checks hist records ("" = none yet)
    call,         \* the last public RedisCache call: its arguments and what it returned
    written,      \* logical key -> the value of the last successful set still in the store
    memo,         \* the callers of get_cached_or_fetch: their locals and position
    probe,        \* one call of a stateless helper: its arguments and its result
    tasks,        \* the coroutines that use the connector: their position between awaits
    router,       \* one run of create_main_router: the directory and what was registered
    server        \* the Server class and its one instance

vars == <<store, redis_cache, req, writes, ticks, clean, allowed, hist, hist_client,
          call, written, memo, probe, tasks, router, server>>
observers == <<clean, allowed, hist, hist_client>>
cachecall == <<call, written>>
others == <<tasks, router, server>>
helpers == <<memo, probe, others>>

-----------------------------------------------------------------------------
(* Settings *)

CACHE_PREFIX == "deepsearch:"
CACHE_TTL == 3600
RATE_LIMIT_PER_MINUTE == 3
RATE_LIMIT_PER_HOUR == 1000

(* Bounds of the model *)

MaxWrites == 1
MaxTicks == 1
MaxHist == 4
MaxCalls == 2

Slots == {1, 2}
Clients == {"10.0.0.1", "10.0.0.2"}
Funcs == {"search"}
TickSteps == {1, 60}

-----------------------------------------------------------------------------
(* Python values and the byte strings the store holds *)

PyInt(n) == [t |-> "int", n |-> n, s |-> ""]
PyStr(s) == [t |-> "str", n |-> 0, s |-> s]
PyList(s) == [t |-> "list", n |-> 0, s |-> s]
PyTuple(s) == [t |-> "tuple", n |-> 0, s |-> s]
PySet(s) == [t |-> "set", n |-> 0, s |-> s]
PyNone == [t |-> "None", n |-> 0, s |-> ""]
\* a function object (a lambda): neither json nor pickle serialises it
PyFunction(s) == [t |-> "function", n |-> 0, s |-> s]

\* b"..." holding a JSON document / a pickle stream / any other text
JsonBytes(v) == [f |-> "json", t |-> v.t, n |-> v.n, s |-> v.s]
PickleBytes(v) == [f |-> "pickle", t |-> v.t, n |-> v.n, s |-> v.s]
TextBytes(s) == [f |-> "text", t |-> "str", n |-> 0, s |-> s]
NoBytes == [f |-> "nil", t |-> "None", n |-> 0, s |-> ""]
Payload(b) == [t |-> b.t, n |-> b.n, s |-> b.s]

Ok(v) == [raised |-> "none", value |-> v]
Raise(e) == [raised |-> e, value |-> PyNone]

\* json.dumps: tuples are written as arrays; sets (and other objects) are refused
json_dumps(v) ==
    CASE v.t \in {"int", "str", "list", "None"} -> [raised |-> "none", bytes |-> JsonBytes(v)]
      [] v.t = "tuple" -> [raised |-> "none", bytes |-> JsonBytes(PyList(v.s))]
      [] OTHER -> [raised |-> "TypeError", bytes |-> NoBytes]

\* pickle.dumps: the stream starts with the PROTO opcode 0x80; a function that
\* cannot be looked up by name is refused
pickle_dumps(v) ==
    IF v.t = "function"
    THEN [raised |-> "PicklingError", bytes |-> NoBytes]
    ELSE [raised |-> "none", bytes |-> PickleBytes(v)]

\* json.loads on bytes: decodes as UTF-8 first (0x80 is no UTF-8 start byte), then parses
json_loads(b) ==
    CASE b.f = "json" -> Ok(Payload(b))
      [] b.f = "pickle" -> Raise("UnicodeDecodeError")
      [] OTHER -> Raise("JSONDecodeError")

\* pickle.loads: an empty byte string runs out of input
pickle_loads(b) ==
    CASE b.f = "pickle" -> Ok(Payload(b))
      [] b.f = "text" /\ b.s = "" -> Raise("EOFError")
      [] OTHER -> Raise("UnpicklingError")

-----------------------------------------------------------------------------
(* The store *)

NoEntry == [val |-> NoBytes, ttl |-> -2]

\* a key sent to the store as the caller wrote it
_make_key_Bare(key) == key

_make_key(key) == CACHE_PREFIX \o key

\* one minute counter for every client
MinuteKey_Shared(client_ip) == "rate_limit:minute:"

MinuteKey(client_ip) == "rate_limit:minute:" \o client_ip
HourKey(client_ip) == "rate_limit:hour:" \o client_ip
EndpointMinuteKey(client_ip, func) ==
    "rate_limit:endpoint:minute:" \o client_ip \o ":" \o func
EndpointHourKey(client_ip, func) ==
    "rate_limit:endpoint:hour:" \o client_ip \o ":" \o func

CounterKeys ==
    {MinuteKey(c) : c \in Clients} \cup {HourKey(c) : c \in Clients}
    \cup {EndpointMinuteKey(c, f) : c \in Clients, f \in Funcs}
    \cup {EndpointHourKey(c, f) : c \in Clients, f \in Funcs}

\* the keys the application caches under, and a key of another tenant of the store
CacheKeys == {"k", "user:1", "user:2"}
ForeignKeys == {"user:9"}

\* hash(str): Python salts the hash of a string with a key drawn when the
\* process starts (PYTHONHASHSEED); within one process it is a fixed function
Seeds == {1, 2}
ArgStrings == <<"<<1>><<>>", "<<1>><<<<\"a\", 2>>, <<\"b\", 3>>>>", "<<2>><<>>">>
Hash(seed, str) ==
    LET i == CHOOSE j \in 1..Len(ArgStrings) : ArgStrings[j] = str
    IN  (seed * 7919 + i * 104729) % 1000

\* sorted(kwargs.items()): the items in the order of their names
\* the order of the keyword names
Names == <<"a", "b">>
Before(x, y) ==
    \E i, j \in 1..Len(Names) : i < j /\ Names[i] = x /\ Names[j] = y

RECURSIVE Sorted(_)
Sorted(items) ==
    IF items = {} THEN <<>>
    ELSE LET first == CHOOSE x \in items : \A y \in items : x[1] = y[1] \/ Before(x[1], y[1])
         IN  <<first>> \o Sorted(items \ {first})

\* cache_result: the default key of a call
BuildKey(seed, key_prefix, func_name, args, kwargs) ==
    LET args_str == ToString(args) \o ToString(Sorted({kwargs[i] : i \in 1..Len(kwargs)}))
    IN  key_prefix \o func_name \o ":" \o ToString(Hash(seed, args_str))

\* lookup(1, a=2, b=3) and lookup(1, b=3, a=2): the keyword arguments as written
KwOrders == {<< <<"a", 2>>, <<"b", 3>> >>, << <<"b", 3>>, <<"a", 2>> >>}

\* the keys cache_result derives for that call in the processes of the model
DerivedKeys == {BuildKey(sd, "", "lookup", <<1>>, kw) : sd \in Seeds, kw \in KwOrders}

LogicalKeys == CounterKeys \cup CacheKeys \cup DerivedKeys
StoreKeys == {_make_key(k) : k \in LogicalKeys} \cup ForeignKeys

AbsentStore == [k \in StoreKeys |-> NoEntry]

\* a write that keeps the value a key already holds
setex_KeepFirst(st, k, ttl, bytes) ==
    IF st[k] = NoEntry THEN [st EXCEPT ![k] = [val |-> bytes, ttl |-> ttl]] ELSE st

\* SET key value, without expiry
setex_Persist(st, k, ttl, bytes) == [st EXCEPT ![k] = [val |-> bytes, ttl |-> -1]]

\* SETEX key ttl value (a ttl that is not positive is refused by the server)
setex(st, k, ttl, bytes) == [st EXCEPT ![k] = [val |-> bytes, ttl |-> ttl]]

-----------------------------------------------------------------------------
(* RedisCache: the connector *)

\* What the network does to one call: "ok", "down" (the ping and every command
\* raise ConnectionError) or "timeout" (the command raises RedisError).
Env == {"ok", "down", "timeout"}

NewCache == [redis_client |-> FALSE, connection_pool |-> FALSE, is_connected |-> FALSE]

\* connect(): pool and client are assigned before the ping; a failed ping
\* clears the flag and re-raises
\* a connect() that sets the flag before it has heard from the store
connect_Sticky(self, e) ==
    [self |-> [redis_client |-> TRUE, connection_pool |-> TRUE, is_connected |-> TRUE],
     raised |-> (e = "down"), connects |-> 1]

connect(self, e) ==
    [self |-> [redis_client |-> TRUE, connection_pool |-> TRUE,
               is_connected |-> (e # "down")],
     raised |-> (e = "down"), connects |-> 1]

\* an _ensure_connection that connects on every call
_ensure_connection_Always(self, e) == connect(self, e)

\* connects: the number of connect() calls made
_ensure_connection(self, e) ==
    IF ~self.is_connected \/ ~self.redis_client
    THEN connect(self, e)
    ELSE [self |-> self, raised |-> FALSE, connects |-> 0]

-----------------------------------------------------------------------------
(* RedisCache: get and set *)

\* the deserialisation of get: JSON, then pickle, then the text itself
Deserialize(value) ==
    LET j == json_loads(value) IN
    IF j.raised = "none" THEN j
    ELSE IF j.raised \in {"JSONDecodeError", "TypeError"}
    THEN LET p == pickle_loads(value) IN
         IF p.raised = "none" THEN p
         ELSE IF p.raised \in {"UnpicklingError", "TypeError"}
         THEN Ok(PyStr(value.s))
         ELSE p
    ELSE j

\* an error branch of get that forgets the caller's default
GetOnError_None(default) == PyNone

\* the value the `except (RedisError, ConnectionError)` branch of get returns
GetOnError(default) == default

\* a miss that forgets the caller's default
GetOnMiss_None(default) == PyNone

\* `if value is None: return default`
GetOnMiss(default) == default

cache_get(self, st, key, default, e) ==
    LET ec == _ensure_connection(self, e)
        cache_key == _make_key(key)
    IN  IF ec.raised \/ e # "ok"
        THEN [self |-> ec.self, ret |-> GetOnError(default), raised |-> "none", failed |-> TRUE]
        ELSE LET value == st[cache_key].val IN
             IF value = NoBytes
             THEN [self |-> ec.self, ret |-> GetOnMiss(default), raised |-> "none",
                   failed |-> FALSE]
             ELSE LET d == Deserialize(value) IN
                  [self |-> ec.self, ret |-> d.value, raised |-> d.raised, failed |-> FALSE]

\* Optional[int]: <<>> is None
None == <<>>
Some(n) == <<n>>
OrDefault(ttl, dflt) == IF ttl = None \/ ttl[1] = 0 THEN dflt ELSE ttl[1]

\* the serialisation of set: JSON first, pickle when json.dumps refuses
Serialize(value) ==
    LET j == json_dumps(value) IN
    IF j.raised = "none" THEN j ELSE pickle_dumps(value)

\* what redis-py sends for a value passed with serialize=False: str and int are
\* encoded as they are written, other objects are refused (DataError)
RawEncode(value) ==
    CASE value.t = "int" -> [raised |-> "none", bytes |-> JsonBytes(value)]
      [] value.t = "str" -> [raised |-> "none", bytes |-> TextBytes(value.s)]
      [] OTHER -> [raised |-> "DataError", bytes |-> NoBytes]

cache_set(self, st, key, value, ttl, serialize, e) ==
    LET ec == _ensure_connection(self, e)
        cache_key == _make_key(key)
        ser == IF serialize THEN Serialize(value) ELSE [raised |-> "none", bytes |-> NoBytes]
        enc == IF serialize THEN ser ELSE RawEncode(value)
        t == OrDefault(ttl, CACHE_TTL)
    IN  IF ec.raised
        THEN [self |-> ec.self, store |-> st, ret |-> FALSE, raised |-> "none", failed |-> TRUE]
        ELSE IF ser.raised # "none"
        THEN [self |-> ec.self, store |-> st, ret |-> FALSE, raised |-> ser.raised,
              failed |-> FALSE]
        ELSE IF e # "ok" \/ enc.raised # "none" \/ t <= 0
        THEN [self |-> ec.self, store |-> st, ret |-> FALSE, raised |-> "none", failed |-> TRUE]
        ELSE [self |-> ec.self, store |-> setex(st, cache_key, t, enc.bytes),
              ret |-> TRUE, raised |-> "none", failed |-> FALSE]

\* a ttl() that turns the answer for a missing key into -1
TtlAnswer_Normalised(entry) == IF entry = NoEntry THEN -1 ELSE entry.ttl

\* `result = await self._redis_client.ttl(cache_key); return result`
TtlAnswer(entry) == entry.ttl

\* ttl(): the TTL command answers -2 for a missing key and -1 for a key without expiry
cache_ttl(self, st, key, e) ==
    LET ec == _ensure_connection(self, e)
        cache_key == _make_key(key)
    IN  IF ec.raised \/ e # "ok"
        THEN [self |-> ec.self, ret |-> -1, raised |-> "none", failed |-> TRUE]
        ELSE [self |-> ec.self, ret |-> TtlAnswer(st[cache_key]), raised |-> "none", failed |-> FALSE]

\* delete(): DEL answers the number of keys removed
cache_delete(self, st, key, e) ==
    LET ec == _ensure_connection(self, e)
        cache_key == _make_key(key)
    IN  IF ec.raised \/ e # "ok"
        THEN [self |-> ec.self, store |-> st, ret |-> FALSE, raised |-> "none", failed |-> TRUE]
        ELSE [self |-> ec.self, store |-> [st EXCEPT ![cache_key] = NoEntry],
              ret |-> (st[cache_key] # NoEntry), raised |-> "none", failed |-> FALSE]

\* exists()
cache_exists(self, st, key, e) ==
    LET ec == _ensure_connection(self, e)
        cache_key == _make_key(key)
    IN  IF ec.raised \/ e # "ok"
        THEN [self |-> ec.self, ret |-> FALSE, raised |-> "none", failed |-> TRUE]
        ELSE [self |-> ec.self, ret |-> (st[cache_key] # NoEntry), raised |-> "none",
              failed |-> FALSE]

\* expire(): EXPIRE answers 1 when the key exists; a timeout that is not
\* positive removes the key
cache_expire(self, st, key, ttl, e) ==
    LET ec == _ensure_connection(self, e)
        cache_key == _make_key(key)
    IN  IF ec.raised \/ e # "ok"
        THEN [self |-> ec.self, store |-> st, ret |-> FALSE, raised |-> "none", failed |-> TRUE]
        ELSE IF st[cache_key] = NoEntry
        THEN [self |-> ec.self, store |-> st, ret |-> FALSE, raised |-> "none", failed |-> FALSE]
        ELSE [self |-> ec.self,
              store |-> IF ttl <= 0 THEN [st EXCEPT ![cache_key] = NoEntry]
                        ELSE [st EXCEPT ![cache_key].ttl = ttl],
              ret |-> TRUE, raised |-> "none", failed |-> FALSE]

\* the patterns clear_pattern is called with
Patterns == {"user:*", "*"}

\* glob matching of KEYS: * matches any run of characters, ? any one character
RECURSIVE GlobMatch(_, _)
GlobMatch(pat, str) ==
    IF pat = "" THEN str = ""
    ELSE IF pat = "*" THEN TRUE
    ELSE IF SubSeq(pat, 1, 1) = "*"
    THEN \/ GlobMatch(SubSeq(pat, 2, Len(pat)), str)
         \/ str # "" /\ GlobMatch(pat, SubSeq(str, 2, Len(str)))
    ELSE /\ str # ""
         /\ SubSeq(pat, 1, 1) \in {"?", SubSeq(str, 1, 1)}
         /\ GlobMatch(SubSeq(pat, 2, Len(pat)), SubSeq(str, 2, Len(str)))

\* the keys of the keyspace each pattern in use matches
Matching ==
    [pat \in {_make_key(g) : g \in Patterns} \cup {CACHE_PREFIX \o "*"} |->
        {k \in StoreKeys : GlobMatch(pat, k)}]

\* a KEYS that answers every key of the store
Keys_Every(st, pattern) == {k \in DOMAIN st : st[k] # NoEntry}

\* KEYS pattern
Keys(st, pattern) == {k \in Matching[pattern] : st[k] # NoEntry}

\* a DEL that removes nothing
Del_Nothing(st, keys) == st

\* DEL key [key ...]
Del(st, keys) == [k \in DOMAIN st |-> IF k \in keys THEN NoEntry ELSE st[k]]

\* clear_pattern(): KEYS, then DEL of what it found (e1, e2: the network during each)
cache_clear_pattern(self, st, pattern, e1, e2) ==
    LET ec == _ensure_connection(self, e1)
        cache_pattern == _make_key(pattern)
        keys == Keys(st, cache_pattern)
    IN  IF ec.raised \/ e1 # "ok" \/ (keys # {} /\ e2 # "ok")
        THEN [self |-> ec.self, store |-> st, ret |-> 0, raised |-> "none", failed |-> TRUE]
        ELSE [self |-> ec.self, store |-> Del(st, keys), ret |-> Cardinality(keys),
              raised |-> "none", failed |-> FALSE]

\* clear_all(): KEYS prefix*, then DEL
cache_clear_all(self, st, e1, e2) ==
    LET ec == _ensure_connection(self, e1)
        pattern == CACHE_PREFIX \o "*"
        keys == Keys(st, pattern)
    IN  IF ec.raised \/ e1 # "ok" \/ (keys # {} /\ e2 # "ok")
        THEN [self |-> ec.self, store |-> st, ret |-> FALSE, raised |-> "none", failed |-> TRUE]
        ELSE [self |-> ec.self, store |-> Del(st, keys), ret |-> TRUE,
              raised |-> "none", failed |-> FALSE]

\* a disconnect() that drops the client handle and forgets the flag
disconnect_DropsClient(self) == [self EXCEPT !.redis_client = FALSE]

\* disconnect(): closes the client when there is one
disconnect(self) ==
    IF self.redis_client THEN [self EXCEPT !.is_connected = FALSE] ELSE self

\* no public call has been made (or the clock has moved since)
NoCall ==
    [op |-> "none", key |-> "", default |-> PyNone, failed |-> FALSE, raised |-> "none",
     value |-> PyNone, flag |-> FALSE, count |-> 0, ttl |-> None, fields |-> {}]

\* no caller of the memoisation helpers, no call of a stateless helper
NoMemo == <<>>
NoProbe == <<>>
\* no coroutine on the connector, no router being built, no Server class loaded
NoTasks == <<>>
NoRouter == <<>>
NoServer == <<>>

-----------------------------------------------------------------------------
(* Requests: the HTTP middleware and the per-endpoint decorator *)

Idle ==
    [pc |-> "idle", kind |-> "", client |-> "", func |-> "", minute_limit |-> 0,
     minute_count |-> PyInt(0), hour_count |-> PyInt(0),
     m_read |-> FALSE, h_read |-> FALSE, fails |-> "",
     allowed |-> FALSE, outcome |-> "", raised |-> "none",
     remaining |-> -1, called |-> FALSE, touched |-> {}]

InFlight(r) == r.pc \notin {"idle", "done"}

\* `count >= limit` on what get returned: only numbers compare with the limit
Compare(count, limit) ==
    IF count.t # "int" THEN "TypeError"
    ELSE IF count.n >= limit THEN "ge" ELSE "lt"

Max(a, b) == IF a >= b THEN a ELSE b

\* redis_cache.increment: RedisCache defines no attribute of that name, so the
\* attribute lookup raises before any store command is sent
HasIncrement == FALSE

\* an `except Exception` branch that denies
CheckRateLimitExcept_Deny == FALSE

\* what check_rate_limit returns from its `except Exception` branch
CheckRateLimitExcept == TRUE

\* requests_per_minute or settings.RATE_LIMIT_PER_MINUTE
LimitOr(given, dflt) == IF given = None \/ given[1] = 0 THEN dflt ELSE given[1]

\* bookkeeping of the observers: a failure, a foreign write or a clock advance
\* ends the undisturbed run
Disturbed ==
    /\ clean' = FALSE
    /\ allowed' = [c \in Clients |-> 0]
    /\ hist' = <<>>
    /\ hist_client' = ""

CountAllowed(c, undisturbed) ==
    IF clean /\ undisturbed
    THEN /\ allowed' = [allowed EXCEPT ![c] = IF @ < MaxHist THEN @ + 1 ELSE @]
         /\ UNCHANGED <<clean, hist, hist_client>>
    ELSE IF clean THEN Disturbed
    ELSE UNCHANGED <<clean, allowed, hist, hist_client>>

Quiet(undisturbed) ==
    IF clean /\ ~undisturbed THEN Disturbed
    ELSE UNCHANGED <<clean, allowed, hist, hist_client>>

\* a finished middleware request is appended to the record of sequential checks
Record(c, ok, remaining, undisturbed) ==
    IF clean /\ ~undisturbed THEN Disturbed
    ELSE /\ UNCHANGED <<clean, allowed>>
         /\ IF clean /\ hist_client \in {"", c} /\ Len(hist) < MaxHist
            THEN /\ hist' = Append(hist, [allowed |-> ok, remaining |-> remaining])
                 /\ hist_client' = c
            ELSE UNCHANGED <<hist, hist_client>>

\* slots are taken in order (the slots are interchangeable)
Free(p) == req[p].pc = "idle" /\ \A q \in Slots : q < p => req[q].pc # "idle"

\* a store call of the handler: the key it used, and whether the calls of the
\* check so far have all failed ("all"), partly failed ("some") or not ("")
Seen(r, g, store_key) ==
    [r EXCEPT !.touched = @ \cup {store_key},
              !.fails = IF g.failed
                        THEN (IF r.touched = {} \/ @ = "all" THEN "all" ELSE "some")
                        ELSE (IF @ = "" THEN "" ELSE "some")]

\* the locals of check_rate_limit end with its return
Returned(r) ==
    [r EXCEPT !.minute_count = PyInt(0), !.hour_count = PyInt(0),
              !.m_read = FALSE, !.h_read = FALSE]

\* a middleware that goes on to call_next after check_rate_limit returned False
MwDenied_ThenCallNext(r, count) ==
    [r EXCEPT !.pc = "mw_call_next", !.allowed = FALSE,
              !.remaining = Max(0, RATE_LIMIT_PER_MINUTE - count)]

\* check_rate_limit returns False: the middleware answers 429
MwDenied(r, count) ==
    [r EXCEPT !.pc = "done", !.allowed = FALSE, !.outcome = "429",
              !.remaining = Max(0, RATE_LIMIT_PER_MINUTE - count)]

\* check_rate_limit without its `except Exception` branch
MwExcept_Propagates(r) ==
    [Returned(r) EXCEPT !.pc = "done", !.raised = "AttributeError", !.outcome = "500"]

\* check_rate_limit leaves through `except Exception` with CheckRateLimitExcept
MwExcept(r) ==
    IF CheckRateLimitExcept
    THEN [Returned(r) EXCEPT !.pc = "mw_call_next", !.allowed = TRUE]
    ELSE [r EXCEPT !.pc = "done", !.allowed = FALSE, !.outcome = "429"]

\* rate_limit_middleware, up to the call of check_rate_limit
StartMiddleware(p, client_ip) ==
    /\ Free(p)
    /\ req' = [req EXCEPT ![p] = [Idle EXCEPT !.pc = "mw_minute", !.kind = "mw",
                                              !.client = client_ip]]
    /\ IF \E q \in Slots : req[q].kind = "mw" /\ req[q].client = client_ip
                           /\ req[q].pc # "idle"
       THEN hist' = <<>> /\ hist_client' = "-"
       ELSE UNCHANGED <<hist, hist_client>>
    /\ UNCHANGED <<store, redis_cache, writes, ticks, clean, allowed>>
    /\ UNCHANGED <<cachecall, helpers>>

\* check_rate_limit: the per-minute check
MwCheckMinute(p, e) ==
    /\ req[p].pc = "mw_minute"
    /\ LET r == req[p]
           minute_key == MinuteKey(r.client)
           g == cache_get(redis_cache, store, minute_key, PyInt(0), e)
           cmp == IF g.raised # "none" THEN "raised"
                  ELSE Compare(g.ret, RATE_LIMIT_PER_MINUTE)
           seen == [Seen(r, g, _make_key(minute_key)) EXCEPT
                       !.minute_count = g.ret, !.m_read = ~g.failed]
       IN  /\ redis_cache' = g.self
           /\ CASE cmp = "ge" ->
                     /\ req' = [req EXCEPT ![p] = MwDenied(seen, g.ret.n)]
                     /\ Record(r.client, FALSE,
                               Max(0, RATE_LIMIT_PER_MINUTE - g.ret.n), e = "ok")
                [] cmp = "lt" ->
                     /\ req' = [req EXCEPT ![p] = [seen EXCEPT !.pc = "mw_hour"]]
                     /\ Quiet(e = "ok")
                [] OTHER ->
                     /\ req' = [req EXCEPT ![p] = MwExcept(seen)]
                     /\ Quiet(FALSE)
    /\ UNCHANGED <<store, writes, ticks>>
    /\ UNCHANGED <<cachecall, helpers>>

\* check_rate_limit: the per-hour check, leaving the store as st
MwCheckHourOn(p, e, st) ==
    /\ req[p].pc = "mw_hour"
    /\ LET r == req[p]
           hour_key == HourKey(r.client)
           g == cache_get(redis_cache, store, hour_key, PyInt(0), e)
           cmp == IF g.raised # "none" THEN "raised"
                  ELSE Compare(g.ret, RATE_LIMIT_PER_HOUR)
           seen == [Seen(r, g, _make_key(hour_key)) EXCEPT
                       !.hour_count = g.ret, !.h_read = ~g.failed]
       IN  /\ redis_cache' = g.self
           /\ CASE cmp = "ge" ->
                     /\ req' = [req EXCEPT ![p] = MwDenied(seen, r.minute_count.n)]
                     /\ Record(r.client, FALSE,
                               Max(0, RATE_LIMIT_PER_MINUTE - r.minute_count.n), e = "ok")
                [] cmp = "lt" ->
                     /\ req' = [req EXCEPT ![p] = [seen EXCEPT !.pc = "mw_incr"]]
                     /\ Quiet(e = "ok")
                [] OTHER ->
                     /\ req' = [req EXCEPT ![p] = MwExcept(seen)]
                     /\ Quiet(FALSE)
    /\ store' = st
    /\ UNCHANGED <<writes, ticks>>
    /\ UNCHANGED <<cachecall, helpers>>

\* INCR key, as the store would execute it
Incr(st, k) ==
    IF st[k] = NoEntry
    THEN [st EXCEPT ![k] = [val |-> JsonBytes(PyInt(1)), ttl |-> -1]]
    ELSE [st EXCEPT ![k].val.n = @ + 1]

\* the minute counter incremented ahead of the per-hour check
MwCheckHour_IncrementFirst(p, e) ==
    MwCheckHourOn(p, e, Incr(store, _make_key(MinuteKey(req[p].client))))

\* check_rate_limit: the per-hour check; it sends no write
MwCheckHour(p, e) == MwCheckHourOn(p, e, store)

\* check_rate_limit: `await redis_cache.increment(minute_key, 1)` and what follows.
\* The lookup of `increment` raises AttributeError, which `except Exception`
\* turns into the return value; no store command is sent.
MwIncrement(p) ==
    /\ req[p].pc = "mw_incr"
    /\ ~HasIncrement
    /\ req' = [req EXCEPT ![p] = MwExcept(@)]
    /\ IF CheckRateLimitExcept
       THEN CountAllowed(req[p].client, TRUE)
       ELSE Record(req[p].client, FALSE, req[p].remaining, TRUE)
    /\ UNCHANGED <<store, redis_cache, writes, ticks>>
    /\ UNCHANGED <<cachecall, helpers>>

\* rate_limit_middleware: response = await call_next(request)
MwCallNext(p) ==
    /\ req[p].pc = "mw_call_next"
    /\ req' = [req EXCEPT ![p] = [@ EXCEPT !.pc = "mw_headers", !.called = TRUE]]
    /\ UNCHANGED <<store, redis_cache, writes, ticks, clean, allowed, hist, hist_client>>
    /\ UNCHANGED <<cachecall, helpers>>

\* add_rate_limit_headers: two get and two ttl calls, then the six headers
MwAddHeaders(p, e) ==
    /\ req[p].pc = "mw_headers"
    /\ LET r == req[p]
           g1 == cache_get(redis_cache, store, MinuteKey(r.client), PyInt(0), e)
           g2 == cache_get(g1.self, store, HourKey(r.client), PyInt(0), e)
           t1 == cache_ttl(g2.self, store, MinuteKey(r.client), e)
           t2 == cache_ttl(t1.self, store, HourKey(r.client), e)
           good == g1.raised = "none" /\ g2.raised = "none"
                   /\ g1.ret.t = "int" /\ g2.ret.t = "int"
           remaining == IF good THEN Max(0, RATE_LIMIT_PER_MINUTE - g1.ret.n) ELSE -1
       IN  /\ redis_cache' = t2.self
           /\ req' = [req EXCEPT ![p] =
                        [r EXCEPT !.pc = "done", !.outcome = "200",
                                  !.remaining = remaining]]
           /\ Record(r.client, TRUE, remaining, e = "ok")
    /\ UNCHANGED <<store, writes, ticks>>
    /\ UNCHANGED <<cachecall, helpers>>

\* the response has been sent
Finish(p) ==
    /\ req[p].pc = "done"
    /\ req' = [req EXCEPT ![p] = Idle]
    /\ UNCHANGED <<store, redis_cache, writes, ticks, clean, allowed, hist, hist_client>>
    /\ UNCHANGED <<cachecall, helpers>>

\* rate_limit(...).wrapper, up to the first store call; the request argument is
\* present and requests_per_minute is the decorator's argument
StartEndpoint(p, client_ip, func, requests_per_minute) ==
    /\ Free(p)
    /\ req' = [req EXCEPT ![p] =
                 [Idle EXCEPT !.pc = "ep_minute", !.kind = "ep", !.client = client_ip,
                              !.func = func,
                              !.minute_limit = LimitOr(requests_per_minute,
                                                       RATE_LIMIT_PER_MINUTE)]]
    /\ UNCHANGED <<store, redis_cache, writes, ticks, clean, allowed, hist, hist_client>>
    /\ UNCHANGED <<cachecall, helpers>>

\* an exception other than HTTPException leaves the wrapper: the call fails
EndpointRaised(r, exc) ==
    [Returned(r) EXCEPT !.pc = "done", !.outcome = "500", !.raised = exc]

\* wrapper: minute_count = await redis_cache.get(minute_key, 0)
EpGetMinute(p, e) ==
    /\ req[p].pc = "ep_minute"
    /\ LET r == req[p]
           minute_key == EndpointMinuteKey(r.client, r.func)
           g == cache_get(redis_cache, store, minute_key, PyInt(0), e)
           seen == [Seen(r, g, _make_key(minute_key)) EXCEPT
                       !.minute_count = g.ret, !.m_read = ~g.failed]
       IN  /\ redis_cache' = g.self
           /\ req' = [req EXCEPT ![p] =
                        IF g.raised # "none"
                        THEN EndpointRaised(seen, g.raised)
                        ELSE [seen EXCEPT !.pc = "ep_hour"]]
           /\ Quiet(e = "ok" /\ g.raised = "none")
    /\ UNCHANGED <<store, writes, ticks>>
    /\ UNCHANGED <<cachecall, helpers>>

\* what the wrapper raises when a limit is reached
EndpointDenied(r) ==
    [r EXCEPT !.pc = "done", !.allowed = FALSE, !.outcome = "429",
              !.raised = "HTTPException"]

\* wrapper: hour_count = await redis_cache.get(hour_key, 0), then the comparison
EpGetHour(p, e) ==
    /\ req[p].pc = "ep_hour"
    /\ LET r == req[p]
           hour_key == EndpointHourKey(r.client, r.func)
           g == cache_get(redis_cache, store, hour_key, PyInt(0), e)
           seen == [Seen(r, g, _make_key(hour_key)) EXCEPT
                       !.hour_count = g.ret, !.h_read = ~g.failed]
           cm == Compare(r.minute_count, r.minute_limit)
           ch == Compare(g.ret, RATE_LIMIT_PER_HOUR)
       IN  /\ redis_cache' = g.self
           /\ req' = [req EXCEPT ![p] =
                        IF g.raised # "none"
                        THEN EndpointRaised(seen, g.raised)
                        ELSE IF cm = "TypeError" \/ (cm = "lt" /\ ch = "TypeError")
                        THEN EndpointRaised(seen, "TypeError")
                        ELSE IF cm = "ge" \/ ch = "ge"
                        THEN EndpointDenied(seen)
                        ELSE [Returned(seen) EXCEPT !.pc = "ep_incr"]]
           /\ Quiet(e = "ok" /\ g.raised = "none")
    /\ UNCHANGED <<store, writes, ticks>>
    /\ UNCHANGED <<cachecall, helpers>>

\* wrapper: `await redis_cache.increment(minute_key, 1)`: the AttributeError is
\* not caught here, the wrapped function is never reached
EpIncrement(p) ==
    /\ req[p].pc = "ep_incr"
    /\ ~HasIncrement
    /\ req' = [req EXCEPT ![p] = EndpointRaised(@, "AttributeError")]
    /\ UNCHANGED <<store, redis_cache, writes, ticks, clean, allowed, hist, hist_client>>
    /\ UNCHANGED <<cachecall, helpers>>

-----------------------------------------------------------------------------
(* Other callers of the cache, and the clock *)

CounterValues == {2, RATE_LIMIT_PER_HOUR}

\* RedisCache.set called by another part of the application
CacheSet(key, value, ttl, e) ==
    /\ writes < MaxWrites
    /\ LET w == cache_set(redis_cache, store, key, value, ttl, TRUE, e)
       IN  /\ store' = w.store
           /\ redis_cache' = w.self
    /\ writes' = writes + 1
    /\ Quiet(FALSE)
    /\ UNCHANGED <<req, ticks>>
    /\ UNCHANGED <<cachecall, helpers>>

\* a clock that removes a key only after its TTL has been exceeded
Expire_Late(st, d) ==
    [k \in DOMAIN st |->
        IF st[k].ttl < 0 THEN st[k]
        ELSE IF st[k].ttl < d THEN NoEntry
        ELSE [st[k] EXCEPT !.ttl = @ - d]]

\* the store's clock: d seconds pass, keys whose TTL has run out are removed
Expire(st, d) ==
    [k \in DOMAIN st |->
        IF st[k].ttl < 0 THEN st[k]
        ELSE IF st[k].ttl <= d THEN NoEntry
        ELSE [st[k] EXCEPT !.ttl = @ - d]]

\* the values set earlier whose keys are still in the store st
Surviving(st) == [k \in CacheKeys |-> IF st[_make_key(k)] = NoEntry THEN None ELSE written[k]]

Tick(d) ==
    /\ ticks < MaxTicks
    /\ ticks' = ticks + 1
    /\ store' = Expire(store, d)
    /\ Quiet(FALSE)
    /\ call' = NoCall
    /\ written' = Surviving(store')
    /\ UNCHANGED <<redis_cache, req, writes, helpers>>

-----------------------------------------------------------------------------
(* The rate limiter in front of the store *)

GlobalCounterKeys == {MinuteKey(c) : c \in Clients} \cup {HourKey(c) : c \in Clients}

Init ==
    /\ store = AbsentStore
    /\ redis_cache = NewCache
    /\ req = [p \in Slots |-> Idle]
    /\ writes = 0
    /\ ticks = 0
    /\ clean = TRUE
    /\ allowed = [c \in Clients |-> 0]
    /\ hist = <<>>
    /\ hist_client = ""
    /\ call = NoCall
    /\ memo = NoMemo
    /\ probe = NoProbe
    /\ tasks = NoTasks
    /\ router = NoRouter
    /\ server = NoServer
    /\ written = [k \in CacheKeys |-> None]

Middleware ==
    \/ \E p \in Slots, c \in Clients : StartMiddleware(p, c)
    \/ \E p \in Slots, e \in Env : MwCheckMinute(p, e)
    \/ \E p \in Slots, e \in Env : MwCheckHour(p, e)
    \/ \E p \in Slots : MwIncrement(p)
    \/ \E p \in Slots : MwCallNext(p)
    \/ \E p \in Slots, e \in Env : MwAddHeaders(p, e)
    \/ \E p \in Slots : Finish(p)

Next ==
    \/ Middleware
    \/ \E k \in GlobalCounterKeys, v \in CounterValues, e \in Env :
          CacheSet(k, PyInt(v), Some(60), e)
    \/ \E d \in TickSteps : Tick(d)

Spec == Init /\ [][Next]_vars

-----------------------------------------------------------------------------
(* The middleware and the per-endpoint decorator side by side *)

InitScoped ==
    /\ store = AbsentStore
    /\ redis_cache = NewCache
    /\ req = [p \in Slots |-> Idle]
    /\ writes = 0
    /\ ticks = 0
    /\ clean = FALSE
    /\ allowed = [c \in Clients |-> 0]
    /\ hist = <<>>
    /\ hist_client = ""
    /\ call = NoCall
    /\ memo = NoMemo
    /\ probe = NoProbe
    /\ tasks = NoTasks
    /\ router = NoRouter
    /\ server = NoServer
    /\ written = [k \in CacheKeys |-> None]

Endpoint ==
    \/ \E p \in Slots, c \in Clients, f \in Funcs, l \in {None, Some(2)} :
          StartEndpoint(p, c, f, l)
    \/ \E p \in Slots, e \in Env : EpGetMinute(p, e)
    \/ \E p \in Slots, e \in Env : EpGetHour(p, e)
    \/ \E p \in Slots : EpIncrement(p)

NextScoped ==
    \/ Middleware
    \/ Endpoint
    \/ \E k \in CounterKeys, v \in CounterValues, e \in Env :
          CacheSet(k, PyInt(v), Some(60), e)

SpecScoped == InitScoped /\ [][NextScoped]_vars

-----------------------------------------------------------------------------
(* The public operations of RedisCache, called one after the other *)

SetValues == {PyInt(5), PyStr("hello"), PySet("1,2")}
SetInputs ==
    {[key |-> "k", value |-> v, ttl |-> None, serialize |-> TRUE] : v \in SetValues}
    \cup {[key |-> "k", value |-> PyInt(5), ttl |-> t, serialize |-> TRUE] :
            t \in {Some(1), Some(0)}}
    \cup {[key |-> "k", value |-> PyFunction("lambda"), ttl |-> None, serialize |-> TRUE]}
    \cup {[key |-> "k", value |-> v, ttl |-> None, serialize |-> FALSE] :
            v \in {PyStr("hello"), PySet("1,2")}}
    \cup {[key |-> k, value |-> PyInt(5), ttl |-> None, serialize |-> TRUE] :
            k \in {"user:1", "user:2"}}
GetInputs ==
    {[key |-> "k", default |-> d] : d \in {PyNone, PyInt(0)}}
    \cup {[key |-> "user:1", default |-> PyNone]}
ProbedKeys == {"k", "user:1"}

InitCache ==
    /\ store = [AbsentStore EXCEPT !["user:9"] = [val |-> TextBytes("theirs"), ttl |-> -1]]
    /\ redis_cache = NewCache
    /\ req = [p \in Slots |-> Idle]
    /\ writes = 0
    /\ ticks = 0
    /\ clean = FALSE
    /\ allowed = [c \in Clients |-> 0]
    /\ hist = <<>>
    /\ hist_client = ""
    /\ call = NoCall
    /\ memo = NoMemo
    /\ probe = NoProbe
    /\ tasks = NoTasks
    /\ router = NoRouter
    /\ server = NoServer
    /\ written = [k \in CacheKeys |-> None]

Called(op, key, r) ==
    [NoCall EXCEPT !.op = op, !.key = key, !.failed = r.failed, !.raised = r.raised]

OpGet(key, default, e) ==
    LET r == cache_get(redis_cache, store, key, default, e) IN
    /\ redis_cache' = r.self
    /\ call' = [Called("get", key, r) EXCEPT !.default = default, !.value = r.ret]
    /\ UNCHANGED <<store, written, req, writes, ticks, observers, helpers>>

OpSet(key, value, ttl, serialize, e) ==
    LET r == cache_set(redis_cache, store, key, value, ttl, serialize, e) IN
    /\ redis_cache' = r.self
    /\ store' = r.store
    /\ call' = [Called("set", key, r) EXCEPT !.flag = r.ret, !.value = value, !.ttl = ttl]
    /\ written' = IF r.ret THEN [written EXCEPT ![key] = Some(value)] ELSE written
    /\ UNCHANGED <<req, writes, ticks, observers, helpers>>

OpDelete(key, e) ==
    LET r == cache_delete(redis_cache, store, key, e) IN
    /\ redis_cache' = r.self
    /\ store' = r.store
    /\ call' = [Called("delete", key, r) EXCEPT !.flag = r.ret]
    /\ written' = Surviving(store')
    /\ UNCHANGED <<req, writes, ticks, observers, helpers>>

OpExists(key, e) ==
    LET r == cache_exists(redis_cache, store, key, e) IN
    /\ redis_cache' = r.self
    /\ call' = [Called("exists", key, r) EXCEPT !.flag = r.ret]
    /\ UNCHANGED <<store, written, req, writes, ticks, observers, helpers>>

OpExpire(key, ttl, e) ==
    LET r == cache_expire(redis_cache, store, key, ttl, e) IN
    /\ redis_cache' = r.self
    /\ store' = r.store
    /\ call' = [Called("expire", key, r) EXCEPT !.flag = r.ret, !.count = ttl]
    /\ written' = Surviving(store')
    /\ UNCHANGED <<req, writes, ticks, observers, helpers>>

OpTtl(key, e) ==
    LET r == cache_ttl(redis_cache, store, key, e) IN
    /\ redis_cache' = r.self
    /\ call' = [Called("ttl", key, r) EXCEPT !.count = r.ret]
    /\ UNCHANGED <<store, written, req, writes, ticks, observers, helpers>>

OpClearPattern(pattern, e1, e2) ==
    LET r == cache_clear_pattern(redis_cache, store, pattern, e1, e2) IN
    /\ redis_cache' = r.self
    /\ store' = r.store
    /\ call' = [Called("clear_pattern", pattern, r) EXCEPT !.count = r.ret]
    /\ written' = Surviving(store')
    /\ UNCHANGED <<req, writes, ticks, observers, helpers>>

OpClearAll(e1, e2) ==
    LET r == cache_clear_all(redis_cache, store, e1, e2) IN
    /\ redis_cache' = r.self
    /\ store' = r.store
    /\ call' = [Called("clear_all", "", r) EXCEPT
                   !.flag = r.ret,
                   !.count = Cardinality({k \in StoreKeys : r.store[k] # store[k]})]
    /\ written' = Surviving(store')
    /\ UNCHANGED <<req, writes, ticks, observers, helpers>>

\* the keys of the dictionaries get_cache_stats returns
StatsFields ==
    {"connected", "redis_version", "used_memory", "connected_clients",
     "total_commands_processed", "keyspace_hits", "keyspace_misses"}
ErrorFields == {"connected", "error"}

\* a get_cache_stats without its `except Exception`
get_cache_stats_NoExcept(self, e) ==
    LET ec == _ensure_connection(self, e) IN
    IF ec.raised \/ e # "ok"
    THEN [self |-> ec.self, connected |-> FALSE, fields |-> {},
          raised |-> "ConnectionError", connects |-> ec.connects]
    ELSE [self |-> ec.self, connected |-> ec.self.is_connected, fields |-> StatsFields,
          raised |-> "none", connects |-> ec.connects]

\* get_cache_stats(): _ensure_connection, then INFO; any exception becomes the
\* answer {"connected": False, "error": str(e)}
get_cache_stats(self, e) ==
    LET ec == _ensure_connection(self, e) IN
    IF ec.raised \/ e # "ok"
    THEN [self |-> ec.self, connected |-> FALSE, fields |-> ErrorFields,
          raised |-> "none", connects |-> ec.connects]
    ELSE [self |-> ec.self, connected |-> ec.self.is_connected, fields |-> StatsFields,
          raised |-> "none", connects |-> ec.connects]

GetCacheStats(e) ==
    LET r == get_cache_stats(redis_cache, e) IN
    /\ redis_cache' = r.self
    /\ call' = [NoCall EXCEPT !.op = "stats", !.count = r.connects, !.flag = r.connected,
                              !.fields = r.fields, !.raised = r.raised]
    /\ UNCHANGED <<store, written, req, writes, ticks, observers, helpers>>

Disconnect ==
    /\ redis_cache' = disconnect(redis_cache)
    /\ call' = NoCall
    /\ UNCHANGED <<store, written, req, writes, ticks, observers, helpers>>

NextCache ==
    \/ \E i \in GetInputs, e \in Env : OpGet(i.key, i.default, e)
    \/ \E i \in SetInputs, e \in Env : OpSet(i.key, i.value, i.ttl, i.serialize, e)
    \/ \E k \in ProbedKeys, e \in Env : OpDelete(k, e)
    \/ \E k \in ProbedKeys, e \in Env : OpExists(k, e)
    \/ \E e \in Env : OpExpire("k", 60, e)
    \/ \E k \in ProbedKeys, e \in Env : OpTtl(k, e)
    \/ \E g \in Patterns, e1 \in Env, e2 \in {"ok", "timeout"} : OpClearPattern(g, e1, e2)
    \/ \E e1 \in Env, e2 \in {"ok", "timeout"} : OpClearAll(e1, e2)
    \/ \E e \in Env : GetCacheStats(e)
    \/ Disconnect
    \/ \E d \in TickSteps : Tick(d)

SpecCache == InitCache /\ [][NextCache]_vars

-----------------------------------------------------------------------------
(* The memoisation helpers: get_cached_or_fetch and cache_result *)

\* what the fetch function of a call returns
FetchValues == {PyInt(5), PyNone, PySet("1,2")}

\* the summary of a finished call
NoSummary == [key |-> "", fn |-> PyNone, result |-> PyNone, fetched |-> 0, ok |-> FALSE]

\* the locals of a call: key, the value its function returns (fn), what get
\* returned (cached); and what is recorded about it: how often the function ran,
\* whether every store call of it met a store that is down, whether one failed,
\* and the call that finished before it started (prev)
MemoIdle ==
    [pc |-> "idle", kind |-> "", key |-> "", fn |-> PyNone, cached |-> PyNone,
     result |-> PyNone, raised |-> "none", fetched |-> 0,
     alldown |-> TRUE, anyfail |-> FALSE, prev |-> NoSummary]

MemoFree(p) == memo.c[p].pc = "idle" /\ \A q \in Slots : q < p => memo.c[q].pc # "idle"

\* a lookup that is never a miss
MemoMiss_Never(cached) == FALSE

\* `if cached_value is not None: return cached_value`
MemoMiss(cached) == cached = PyNone

\* get_cached_or_fetch(key, fetch_func), or a call of a function wrapped by
\* cache_result (its key is built from its name and arguments)
StartMemo(p, kind, key, fn) ==
    /\ MemoFree(p)
    /\ memo.n < MaxCalls
    /\ memo' = [memo EXCEPT !.n = @ + 1, !.c[p] =
                  [MemoIdle EXCEPT !.pc = "get", !.kind = kind, !.key = key, !.fn = fn,
                                   !.prev = IF \A q \in Slots : memo.c[q].pc = "idle"
                                            THEN memo.last ELSE NoSummary]]
    /\ UNCHANGED <<store, redis_cache, req, writes, ticks, observers, cachecall, probe, others>>

\* cached_value = await redis_cache.get(key), and the return on a hit
MemoGet(p, e) ==
    /\ memo.c[p].pc = "get"
    /\ LET r == memo.c[p]
           g == cache_get(redis_cache, store, r.key, PyNone, e)
           seen == [r EXCEPT !.alldown = @ /\ e = "down", !.anyfail = @ \/ g.failed]
       IN  /\ redis_cache' = g.self
           /\ memo' = [memo EXCEPT !.c[p] =
                         IF g.raised # "none"
                         THEN [seen EXCEPT !.pc = "done", !.raised = g.raised]
                         ELSE IF MemoMiss(g.ret)
                         THEN [seen EXCEPT !.pc = "fetch", !.cached = g.ret]
                         ELSE [seen EXCEPT !.pc = "done", !.cached = g.ret,
                                           !.result = g.ret]]
    /\ UNCHANGED <<store, req, writes, ticks, observers, cachecall, probe, others>>

\* value = fetch_func(*args, **kwargs)
MemoFetch(p) ==
    /\ memo.c[p].pc = "fetch"
    /\ memo' = [memo EXCEPT !.c[p] = [@ EXCEPT !.pc = "set", !.fetched = @ + 1]]
    /\ UNCHANGED <<store, redis_cache, req, writes, ticks, observers, cachecall, probe, others>>

\* await redis_cache.set(key, value, ttl); return value
MemoSet(p, e) ==
    /\ memo.c[p].pc = "set"
    /\ LET r == memo.c[p]
           w == cache_set(redis_cache, store, r.key, r.fn, None, TRUE, e)
           seen == [r EXCEPT !.alldown = @ /\ e = "down", !.anyfail = @ \/ w.failed]
       IN  /\ redis_cache' = w.self
           /\ store' = w.store
           /\ memo' = [memo EXCEPT !.c[p] =
                         IF w.raised # "none"
                         THEN [seen EXCEPT !.pc = "done", !.raised = w.raised]
                         ELSE [seen EXCEPT !.pc = "done", !.result = r.fn]]
    /\ UNCHANGED <<req, writes, ticks, observers, cachecall, probe, others>>

\* the call has returned (or raised) to its caller
MemoFinish(p) ==
    /\ memo.c[p].pc = "done"
    /\ LET r == memo.c[p] IN
       memo' = [n |-> memo.n,
                c |-> [memo.c EXCEPT ![p] = MemoIdle],
                last |-> [key |-> r.key, fn |-> r.fn, result |-> r.result,
                          fetched |-> r.fetched,
                          ok |-> (r.raised = "none" /\ ~r.anyfail)]]
    /\ UNCHANGED <<store, redis_cache, req, writes, ticks, observers, cachecall, probe, others>>

\* the keys the helpers are called with: one given to get_cached_or_fetch, and
\* those built by cache_result for lookup(1, a=2, b=3), in either order of the
\* keyword arguments, in a process with either seed
MemoCalls ==
    {[kind |-> "fetch", key |-> "k"]}
    \cup {[kind |-> "wrap", key |-> BuildKey(sd, "", "lookup", <<1>>, kw)] :
             sd \in Seeds, kw \in KwOrders}

InitMemo ==
    /\ store = AbsentStore
    /\ redis_cache = NewCache
    /\ req = [p \in Slots |-> Idle]
    /\ writes = 0
    /\ ticks = 0
    /\ clean = FALSE
    /\ allowed = [c \in Clients |-> 0]
    /\ hist = <<>>
    /\ hist_client = ""
    /\ call = NoCall
    /\ written = [k \in CacheKeys |-> None]
    /\ memo = [n |-> 0, c |-> [p \in Slots |-> MemoIdle], last |-> NoSummary]
    /\ probe = NoProbe
    /\ tasks = NoTasks
    /\ router = NoRouter
    /\ server = NoServer

NextMemo ==
    \/ \E p \in Slots, m \in MemoCalls, fn \in FetchValues : StartMemo(p, m.kind, m.key, fn)
    \/ \E p \in Slots, e \in Env : MemoGet(p, e)
    \/ \E p \in Slots : MemoFetch(p)
    \/ \E p \in Slots, e \in Env : MemoSet(p, e)
    \/ \E p \in Slots : MemoFinish(p)

SpecMemo == InitMemo /\ [][NextMemo]_vars

-----------------------------------------------------------------------------
(* The client identifier and the IP allow-list decorator *)

\* header values a client can send; a header can be present and empty
ForwardedValues == {"", ",", "10.0.0.1", "10.0.0.1, 10.0.0.2", " 10.0.0.3 ,10.0.0.1"}
RealIpValues == {"", "10.0.0.2"}
PeerHosts == {"127.0.0.1", "10.0.0.9"}

\* request.headers.get(...) answers None for a header that was not sent;
\* request.client is None when the server knows no peer
Requests ==
    [forwarded_for : {None} \cup {Some(v) : v \in ForwardedValues},
     real_ip : {None} \cup {Some(v) : v \in RealIpValues},
     client : {None} \cup {Some(h) : h \in PeerHosts}]

\* str.split(",")[0]
RECURSIVE FirstEntry(_)
FirstEntry(str) ==
    IF str = "" \/ SubSeq(str, 1, 1) = "," THEN ""
    ELSE SubSeq(str, 1, 1) \o FirstEntry(SubSeq(str, 2, Len(str)))

\* str.strip()
RECURSIVE Strip(_)
Strip(str) ==
    IF str = "" THEN ""
    ELSE IF SubSeq(str, 1, 1) = " " THEN Strip(SubSeq(str, 2, Len(str)))
    ELSE IF SubSeq(str, Len(str), Len(str)) = " " THEN Strip(SubSeq(str, 1, Len(str) - 1))
    ELSE str

\* "if header:" is false for None and for the empty string
Truthy(header) == header # None /\ header[1] # ""

\* a get_client_ip that asks the transport before the headers
get_client_ip_PeerFirst(request) ==
    IF request.client # None THEN request.client[1]
    ELSE IF Truthy(request.forwarded_for) THEN Strip(FirstEntry(request.forwarded_for[1]))
    ELSE IF Truthy(request.real_ip) THEN request.real_ip[1]
    ELSE "unknown"

get_client_ip(request) ==
    IF Truthy(request.forwarded_for) THEN Strip(FirstEntry(request.forwarded_for[1]))
    ELSE IF Truthy(request.real_ip) THEN request.real_ip[1]
    ELSE IF request.client # None THEN request.client[1]
    ELSE "unknown"

\* how the framework hands the Request to the wrapped endpoint: as a positional
\* argument, as a keyword argument (FastAPI), or not at all
Passings == {"positional", "keyword", "absent"}
AllowedIps == {{}, {"127.0.0.1"}, {"127.0.0.1", "10.0.0.1"}}

ProbeIdle ==
    [op |-> "none", request |-> [forwarded_for |-> None, real_ip |-> None, client |-> None],
     passing |-> "absent", allowed_ips |-> {}, client_ip |-> None,
     invoked |-> FALSE, outcome |-> "none"]

\* the middleware's first line: client_ip = self.get_client_ip(request)
GetClientIp(request) ==
    /\ probe' = [ProbeIdle EXCEPT !.op = "get_client_ip", !.request = request,
                                  !.client_ip = Some(get_client_ip(request))]
    /\ UNCHANGED <<store, redis_cache, req, writes, ticks, observers, cachecall, memo, others>>

\* ip_whitelist(allowed_ips)(func)(*args, **kwargs): the Request is looked for
\* among the positional arguments only
IpWhitelist(request, passing, allowed_ips) ==
    LET found == passing = "positional"
        client_ip == get_client_ip(request)
        denied == found /\ client_ip \notin allowed_ips
    IN  /\ probe' = [op |-> "ip_whitelist", request |-> request, passing |-> passing,
                     allowed_ips |-> allowed_ips,
                     client_ip |-> IF found THEN Some(client_ip) ELSE None,
                     invoked |-> ~denied,
                     outcome |-> IF denied THEN "403" ELSE "200"]
        /\ UNCHANGED <<store, redis_cache, req, writes, ticks, observers, cachecall, memo, others>>

InitGuard ==
    /\ store = AbsentStore
    /\ redis_cache = NewCache
    /\ req = [p \in Slots |-> Idle]
    /\ writes = 0
    /\ ticks = 0
    /\ clean = FALSE
    /\ allowed = [c \in Clients |-> 0]
    /\ hist = <<>>
    /\ hist_client = ""
    /\ call = NoCall
    /\ written = [k \in CacheKeys |-> None]
    /\ memo = NoMemo
    /\ probe = ProbeIdle
    /\ tasks = NoTasks
    /\ router = NoRouter
    /\ server = NoServer

NextGuard ==
    \/ \E request \in Requests : GetClientIp(request)
    \/ \E request \in Requests, passing \in Passings, allowed_ips \in AllowedIps :
          IpWhitelist(request, passing, allowed_ips)

SpecGuard == InitGuard /\ [][NextGuard]_vars

-----------------------------------------------------------------------------
(* The connector under concurrent coroutines: a coroutine runs until it      *)
(* awaits the network (the ping of connect, a store command, close), and     *)
(* the other coroutines run while it waits                                    *)

Workers == {1, 2, 3}

\* the calls made on the connector: an operation with one store command, one
\* with two (clear_pattern: KEYS, then DEL), and disconnect
ConnCalls == {"get", "clear_pattern", "disconnect"}

\* up: the connected flag at the moment the awaited command was sent
TaskIdle == [pc |-> "idle", op |-> "none", up |-> TRUE, failed |-> FALSE]

\* the test of _ensure_connection
NeedsConnect(self) == ~self.is_connected \/ ~self.redis_client

\* connect() up to `await self._redis_client.ping()`: a new pool and a new
\* client replace the ones the connector holds
BeginConnect(self) == [self EXCEPT !.connection_pool = TRUE, !.redis_client = TRUE]

\* a call starts and runs to its first await
TaskCall(t, op) ==
    /\ tasks[t].pc = "idle"
    /\ IF op = "disconnect"
       THEN /\ tasks' = [tasks EXCEPT ![t] =
                           [TaskIdle EXCEPT !.op = op,
                                            !.pc = IF redis_cache.redis_client
                                                   THEN "close" ELSE "done"]]
            /\ UNCHANGED redis_cache
       ELSE IF NeedsConnect(redis_cache)
       THEN /\ tasks' = [tasks EXCEPT ![t] = [TaskIdle EXCEPT !.op = op, !.pc = "ping"]]
            /\ redis_cache' = BeginConnect(redis_cache)
       ELSE /\ tasks' = [tasks EXCEPT ![t] =
                           [TaskIdle EXCEPT !.op = op, !.pc = "command",
                                            !.up = redis_cache.is_connected]]
            /\ UNCHANGED redis_cache
    /\ UNCHANGED <<store, req, writes, ticks, observers, cachecall, memo, probe,
                   router, server>>

\* the ping of connect() answers or fails; after a good ping the operation
\* sends its first command, after a bad one it returns its default
PingReturns(t, e) ==
    /\ tasks[t].pc = "ping"
    /\ LET c == connect(redis_cache, e) IN
       /\ redis_cache' = c.self
       /\ tasks' = [tasks EXCEPT ![t] =
                      IF c.raised
                      THEN [@ EXCEPT !.pc = "done", !.failed = TRUE]
                      ELSE [@ EXCEPT !.pc = "command", !.up = c.self.is_connected]]
    /\ UNCHANGED <<store, req, writes, ticks, observers, cachecall, memo, probe,
                   router, server>>

\* the first command answers: get returns; clear_pattern sends DEL when KEYS
\* has found keys
CommandReturns(t, e, found) ==
    /\ tasks[t].pc = "command"
    /\ tasks' = [tasks EXCEPT ![t] =
                   IF e # "ok" THEN [@ EXCEPT !.pc = "done", !.failed = TRUE]
                   ELSE IF @.op = "clear_pattern" /\ found
                   THEN [@ EXCEPT !.pc = "second", !.up = redis_cache.is_connected]
                   ELSE [@ EXCEPT !.pc = "done"]]
    /\ UNCHANGED <<store, redis_cache, req, writes, ticks, observers, cachecall,
                   memo, probe, router, server>>

\* DEL answers
SecondReturns(t, e) ==
    /\ tasks[t].pc = "second"
    /\ tasks' = [tasks EXCEPT ![t] = [@ EXCEPT !.pc = "done", !.failed = (e # "ok")]]
    /\ UNCHANGED <<store, redis_cache, req, writes, ticks, observers, cachecall,
                   memo, probe, router, server>>

\* disconnect(): close() has answered, the flag goes down
CloseReturns(t) ==
    /\ tasks[t].pc = "close"
    /\ redis_cache' = disconnect(redis_cache)
    /\ tasks' = [tasks EXCEPT ![t] = [@ EXCEPT !.pc = "done"]]
    /\ UNCHANGED <<store, req, writes, ticks, observers, cachecall, memo, probe,
                   router, server>>

\* the call has returned to its caller
TaskReturn(t) ==
    /\ tasks[t].pc = "done"
    /\ tasks' = [tasks EXCEPT ![t] = TaskIdle]
    /\ UNCHANGED <<store, redis_cache, req, writes, ticks, observers, cachecall,
                   memo, probe, router, server>>

InitConn ==
    /\ store = AbsentStore
    /\ redis_cache = NewCache
    /\ req = [p \in Slots |-> Idle]
    /\ writes = 0
    /\ ticks = 0
    /\ clean = FALSE
    /\ allowed = [c \in Clients |-> 0]
    /\ hist = <<>>
    /\ hist_client = ""
    /\ call = NoCall
    /\ written = [k \in CacheKeys |-> None]
    /\ memo = NoMemo
    /\ probe = NoProbe
    /\ tasks = [t \in Workers |-> TaskIdle]
    /\ router = NoRouter
    /\ server = NoServer

NextConn ==
    \/ \E t \in Workers, op \in ConnCalls : TaskCall(t, op)
    \/ \E t \in Workers, e \in Env : PingReturns(t, e)
    \/ \E t \in Workers, e \in Env, found \in BOOLEAN : CommandReturns(t, e, found)
    \/ \E t \in Workers, e \in Env : SecondReturns(t, e)
    \/ \E t \in Workers : CloseReturns(t)
    \/ \E t \in Workers : TaskReturn(t)

SpecConn == InitConn /\ [][NextConn]_vars

-----------------------------------------------------------------------------
(* The Server class: one process, one thread; run() and start() block until  *)
(* the uvicorn server stops                                                  *)

Apps == {"app1", "app2"}
Hosts == {"0.0.0.0", "127.0.0.1", "localhost"}
Ports == {8000, 8080}
\* how a blocking run ends: it returns, Ctrl-C (caught), or another exception
\* (uvicorn exits the process on a failed startup), which leaves the method
Endings == {"returns", "KeyboardInterrupt", "SystemExit"}

\* the class before any construction; instances counts the objects made by
\* object.__new__, given is the set of apps passed to Server(...) so far,
\* app/_server/_config are the fields of the instance (_server holds the
\* configuration the uvicorn server was made from)
ServerClass ==
    [_instance |-> FALSE, _initialized |-> FALSE, instances |-> 0, given |-> {},
     app |-> None, _server |-> None, _config |-> None,
     running |-> "none", configured |-> FALSE,
     last |-> [op |-> "none", raised |-> "none", started |-> FALSE, ended |-> "none"]]

\* a _cleanup that leaves the configuration in place
_cleanup_KeepsConfig(self) == [self EXCEPT !._server = None]

\* _cleanup()
_cleanup(self) == [self EXCEPT !._server = None, !._config = None]

\* Server(app): __new__, then __init__
Construct(app) ==
    /\ server.running = "none"
    /\ LET made == IF ~server._instance
                   THEN [server EXCEPT !._instance = TRUE, !.instances = @ + 1]
                   ELSE server
           inited == IF ~made._initialized
                     THEN [made EXCEPT !.app = Some(app), !._server = None,
                                       !._config = None, !._initialized = TRUE]
                     ELSE made
       IN  server' = [inited EXCEPT !.given = @ \cup {app},
                                    !.last = [op |-> "Server", raised |-> "none",
                                              started |-> FALSE, ended |-> "none"]]
    /\ UNCHANGED <<store, redis_cache, req, writes, ticks, observers, cachecall,
                   memo, probe, tasks, router>>

\* config(host, port, **kwargs): configured is the record that config() was called and
\* no run() or start() has finished since
Config(host, port) ==
    /\ server._instance /\ server.running = "none"
    /\ server' = [server EXCEPT !._config = Some([app |-> server.app[1], host |-> host,
                                                  port |-> port]),
                                !.configured = TRUE,
                                !.last = [op |-> "config", raised |-> "none",
                                          started |-> FALSE, ended |-> "none"]]
    /\ UNCHANGED <<store, redis_cache, req, writes, ticks, observers, cachecall,
                   memo, probe, tasks, router>>

\* start(), up to the blocking self._server.run(); made: uvicorn.Server(...) succeeded
StartBegin(made) ==
    /\ server._instance /\ server.running = "none"
    /\ server' =
         IF server._config = None
         THEN [server EXCEPT !.last = [op |-> "start", raised |-> "RuntimeError",
                                       started |-> FALSE, ended |-> "none"]]
         ELSE IF ~made
         THEN [_cleanup(server) EXCEPT
                  !.configured = FALSE,
                  !.last = [op |-> "start", raised |-> "Exception",
                            started |-> FALSE, ended |-> "none"]]
         ELSE [server EXCEPT !._server = server._config, !.running = "start",
                             !.last = [op |-> "start", raised |-> "none",
                                       started |-> TRUE, ended |-> "none"]]
    /\ UNCHANGED <<store, redis_cache, req, writes, ticks, observers, cachecall,
                   memo, probe, tasks, router>>

\* run(), up to the blocking uvicorn.run(self.app, ...)
RunBegin ==
    /\ server._instance /\ server.running = "none"
    /\ server' = [server EXCEPT !.running = "run",
                                !.last = [op |-> "run", raised |-> "none",
                                          started |-> TRUE, ended |-> "none"]]
    /\ UNCHANGED <<store, redis_cache, req, writes, ticks, observers, cachecall,
                   memo, probe, tasks, router>>

\* the blocking call ends: except KeyboardInterrupt, finally self._cleanup()
ServerEnds(how) ==
    /\ server.running # "none"
    /\ server' = [_cleanup(server) EXCEPT
                     !.running = "none", !.configured = FALSE,
                     !.last.ended = how,
                     !.last.raised = IF how = "SystemExit" THEN how ELSE "none"]
    /\ UNCHANGED <<store, redis_cache, req, writes, ticks, observers, cachecall,
                   memo, probe, tasks, router>>

InitServer ==
    /\ store = AbsentStore
    /\ redis_cache = NewCache
    /\ req = [p \in Slots |-> Idle]
    /\ writes = 0
    /\ ticks = 0
    /\ clean = FALSE
    /\ allowed = [c \in Clients |-> 0]
    /\ hist = <<>>
    /\ hist_client = ""
    /\ call = NoCall
    /\ written = [k \in CacheKeys |-> None]
    /\ memo = NoMemo
    /\ probe = NoProbe
    /\ tasks = NoTasks
    /\ router = NoRouter
    /\ server = ServerClass

NextServer ==
    \/ \E app \in Apps : Construct(app)
    \/ \E host \in Hosts, port \in Ports : Config(host, port)
    \/ \E made \in BOOLEAN : StartBegin(made)
    \/ RunBegin
    \/ \E how \in Endings : ServerEnds(how)

SpecServer == InitServer /\ [][NextServer]_vars

-----------------------------------------------------------------------------
(* The router factory: create_main_router *)

\* the *.py files the routes directory may hold
RouteFiles == {"__init__.py", "_private.py", "agents_route.py", "health.py"}

\* what importing a file and registering its router does: "router" (imports,
\* has a router, include_router accepts it), "norouter" (imports, no router
\* attribute), "ImportError", "Exception" (the import raises something else),
\* "badrouter" (include_router raises); "absent": no such file
Behaviours == {"router", "norouter", "ImportError", "Exception", "badrouter"}
Directories ==
    {d \in [RouteFiles -> Behaviours \cup {"absent"}] :
        /\ d["__init__.py"] \in {"absent", "router"}
        /\ d["_private.py"] \in {"absent", "router", "Exception"}}

\* file_path.name == '__init__.py' or file_path.name.startswith('_')
Skipped(name) == name = "__init__.py" \/ SubSeq(name, 1, 1) = "_"

\* a loop body with the `except ImportError` clause only
Caught_ImportErrorOnly(exc) == exc = "ImportError"

\* except ImportError / except Exception
Caught(exc) == exc \in {"ImportError", "Exception"}

\* what the try block of one iteration raises for a file of behaviour b
RaisedBy(b) ==
    CASE b = "ImportError" -> "ImportError"
      [] b \in {"Exception", "badrouter"} -> "Exception"
      [] OTHER -> "none"

\* one iteration of `for file_path in file_paths` (glob yields in any order)
Visit(f) ==
    /\ router.pc = "loop"
    /\ f \in router.todo
    /\ LET b == router.dir[f]
           exc == RaisedBy(b)
       IN  router' =
             IF Skipped(f) THEN [router EXCEPT !.todo = @ \ {f}]
             ELSE IF exc = "none"
             THEN [router EXCEPT !.todo = @ \ {f}, !.imported = @ \cup {f},
                                 !.routes = IF b = "router" THEN @ \cup {f} ELSE @]
             ELSE IF Caught(exc)
             THEN [router EXCEPT !.todo = @ \ {f}, !.imported = @ \cup {f}]
             ELSE [router EXCEPT !.pc = "raised", !.imported = @ \cup {f}, !.raised = exc]
    /\ UNCHANGED <<store, redis_cache, req, writes, ticks, observers, cachecall,
                   memo, probe, tasks, server>>

\* return router
ReturnRouter ==
    /\ router.pc = "loop"
    /\ router.todo = {}
    /\ router' = [router EXCEPT !.pc = "returned", !.returned = "APIRouter"]
    /\ UNCHANGED <<store, redis_cache, req, writes, ticks, observers, cachecall,
                   memo, probe, tasks, server>>

InitRouter ==
    /\ store = AbsentStore
    /\ redis_cache = NewCache
    /\ req = [p \in Slots |-> Idle]
    /\ writes = 0
    /\ ticks = 0
    /\ clean = FALSE
    /\ allowed = [c \in Clients |-> 0]
    /\ hist = <<>>
    /\ hist_client = ""
    /\ call = NoCall
    /\ written = [k \in CacheKeys |-> None]
    /\ memo = NoMemo
    /\ probe = NoProbe
    /\ tasks = NoTasks
    /\ server = NoServer
    /\ \E d \in Directories :
          router = [pc |-> "loop", dir |-> d,
                    todo |-> {f \in RouteFiles : d[f] # "absent"},
                    imported |-> {}, routes |-> {}, raised |-> "none", returned |-> "none"]

NextRouter ==
    \/ \E f \in RouteFiles : Visit(f)
    \/ ReturnRouter

\* the factory is straight-line code: it keeps running until it returns
SpecRouter == InitRouter /\ [][NextRouter]_vars /\ WF_vars(NextRouter)

-----------------------------------------------------------------------------
(* Properties of the rate limiter *)

\* the number a counter key holds (0 when the key does not exist)
Counter(st, logical_key) ==
    IF st[_make_key(logical_key)] = NoEntry THEN 0 ELSE st[_make_key(logical_key)].val.n

Ttl(st, logical_key) == st[_make_key(logical_key)].ttl

\* the step in which check_rate_limit of slot p returns True after its two checks
AllowStep(p) == req[p].pc = "mw_incr" /\ req'[p].pc = "mw_call_next"

\* C1: with the per-minute limit 3, four sequential checks of one client in one
\* window, starting without a counter, return True, True, True, False and report
\* 2, 1, 0, 0 requests remaining in the minute.
C1_FourSequentialChecks ==
    (clean /\ Len(hist) >= 4) =>
        SubSeq(hist, 1, 4) = << [allowed |-> TRUE, remaining |-> 2],
                                [allowed |-> TRUE, remaining |-> 1],
                                [allowed |-> TRUE, remaining |-> 0],
                                [allowed |-> FALSE, remaining |-> 0] >>

\* the four checks have been made, undisturbed
C1_FourChecksMade == clean /\ Len(hist) >= 4

\* C2: a check that denies (minute or hour limit reached) leaves the store as it
\* was: no counter and no TTL changes, and a denial on the hour limit does not
\* increment the minute counter.
C2_DenyLeavesCounters ==
    [][\A p \in Slots :
          (req[p].pc \in {"mw_minute", "mw_hour"} /\ req'[p].outcome = "429")
              => store' = store]_vars

\* a request denied on the hour limit while its minute counter was below the limit
C2_DeniedOnHour ==
    \E p \in Slots :
        /\ req[p].kind = "mw" /\ req[p].outcome = "429"
        /\ req[p].m_read /\ req[p].minute_count.n < RATE_LIMIT_PER_MINUTE
        /\ req[p].h_read /\ req[p].hour_count.n >= RATE_LIMIT_PER_HOUR
        /\ Counter(store, MinuteKey(req[p].client)) = req[p].minute_count.n

\* C3: an allowing check adds exactly 1 to the minute and to the hour counter of
\* the client and leaves them with TTL 60 and 3600.
C3_AllowIncrementsAndRefreshes ==
    [][\A p \in Slots :
          AllowStep(p) =>
              LET c == req[p].client IN
              /\ Counter(store', MinuteKey(c)) = Counter(store, MinuteKey(c)) + 1
              /\ Counter(store', HourKey(c)) = Counter(store, HourKey(c)) + 1
              /\ Ttl(store', MinuteKey(c)) = 60
              /\ Ttl(store', HourKey(c)) = 3600]_vars

\* C4 as claimed: whenever a store call of the check failed, the check allows.
C4_AllowsOnAnyFailure ==
    \A p \in Slots :
        (req[p].kind = "mw" /\ req[p].fails # "" /\ req[p].pc \in {"mw_call_next", "done"})
            => req[p].allowed

\* C4, amended: check_rate_limit raises nothing; when every store call of the
\* check failed (the store is unreachable) it returns True; it returns False
\* only on a counter that was read from the store and is at or over its limit.
C4_FailOpen ==
    \A p \in Slots :
        req[p].kind = "mw" =>
            /\ req[p].raised = "none"
            /\ (req[p].fails = "all" /\ req[p].pc \in {"mw_call_next", "mw_headers", "done"})
                   => req[p].allowed
            /\ (req[p].pc = "done" /\ ~req[p].allowed) =>
                   \/ req[p].m_read /\ req[p].minute_count.n >= RATE_LIMIT_PER_MINUTE
                   \/ req[p].h_read /\ req[p].hour_count.n >= RATE_LIMIT_PER_HOUR

\* a check whose store calls all failed has returned True
C4_AllowedWhileDown ==
    \E p \in Slots :
        req[p].kind = "mw" /\ req[p].fails = "all" /\ req[p].pc = "mw_call_next"
        /\ req[p].allowed /\ ~redis_cache.is_connected

\* C5: concurrent allowed requests of one client each add 1 to both counters:
\* with both requests past their check, the counters equal the number allowed.
C5_ConcurrentIncrements ==
    \A c \in Clients :
        (clean /\ \A p \in Slots : req[p].client = c /\ req[p].pc = "mw_call_next")
            => /\ Counter(store, MinuteKey(c)) = allowed[c]
               /\ Counter(store, HourKey(c)) = allowed[c]

\* C6: the first allowed request of a window (no counter key exists) creates the
\* counter with count 1, and a key whose TTL has run out no longer exists.
C6_WindowLifecycle ==
    [][/\ \A p \in Slots :
             (AllowStep(p) /\ Counter(store, MinuteKey(req[p].client)) = 0)
                 => Counter(store', MinuteKey(req[p].client)) = 1
       /\ \A k \in StoreKeys : store'[k].ttl # 0]_vars

-----------------------------------------------------------------------------
(* Properties of the scopes of the counters *)

\* the store keys of the counters of one scope: the middleware's counters of a
\* client, or the decorator's counters of a client and an operation
ScopeKeys(kind, client_ip, func) ==
    IF kind = "mw"
    THEN {_make_key(MinuteKey(client_ip)), _make_key(HourKey(client_ip))}
    ELSE {_make_key(EndpointMinuteKey(client_ip, func)),
          _make_key(EndpointHourKey(client_ip, func))}

\* clients and operation names whose keys could run into one another
ProbeClients == Clients \cup {"10.0.0.1:search", "endpoint:minute:10.0.0.1"}
ProbeFuncs == Funcs \cup {"status", "search:status"}
Scopes ==
    {[kind |-> "mw", client |-> c, func |-> ""] : c \in ProbeClients}
    \cup {[kind |-> "ep", client |-> c, func |-> f] : c \in Clients, f \in ProbeFuncs}

\* different scopes share no key
ScopesDisjoint ==
    \A a, b \in Scopes :
        a # b => ScopeKeys(a.kind, a.client, a.func)
                     \cap ScopeKeys(b.kind, b.client, b.func) = {}

\* the request slot p holds during a step (the old one, or the one just started)
Stepping(p) == IF req[p].pc = "idle" THEN req'[p] ELSE req[p]

\* C7: counters are independent per (scope, client): the key sets of different
\* scopes are disjoint, a request reads only the keys of its own scope (so its
\* outcome depends on no other scope's counters), and a step of a request
\* changes no counter outside its own scope.
C7_IndependentCounters ==
    [][/\ ScopesDisjoint
       /\ \A p \in Slots :
             req'[p] # req[p] =>
                 LET r == Stepping(p)
                     own == ScopeKeys(r.kind, r.client, r.func)
                 IN  /\ req'[p].touched \subseteq own
                     /\ \A k \in StoreKeys \ own : store'[k] = store[k]]_vars

\* client A has been denied on its counters while client B, in the same window,
\* has just been allowed on its own
C7_DeniedNextToAllowed ==
    \E p, q \in Slots :
        /\ req[p].kind = "mw" /\ req[p].outcome = "429" /\ req[p].fails = ""
        /\ req[q].kind = "mw" /\ req[q].client # req[p].client
        /\ req[q].pc = "mw_call_next" /\ req[q].allowed /\ req[q].fails = ""
        /\ req[q].touched = ScopeKeys("mw", req[q].client, "")

\* the per-minute limit a request is checked against
LimitOf(r) == IF r.kind = "mw" THEN RATE_LIMIT_PER_MINUTE ELSE r.minute_limit

\* C8: a 429 (from the middleware or from the decorator) is produced only when a
\* counter read from the store is at or over its limit, never on a failed call.
C8_DeniedOnlyOnCounter ==
    \A p \in Slots :
        req[p].outcome = "429" =>
            \/ req[p].m_read /\ req[p].minute_count.n >= LimitOf(req[p])
            \/ req[p].h_read /\ req[p].hour_count.n >= RATE_LIMIT_PER_HOUR

\* the decorator has raised 429 on a minute counter it read, although the read
\* of the hour counter failed
C8_EndpointDenied ==
    \E p \in Slots :
        /\ req[p].kind = "ep" /\ req[p].outcome = "429" /\ req[p].raised = "HTTPException"
        /\ req[p].m_read /\ req[p].minute_count.n >= req[p].minute_limit
        /\ req[p].fails = "some"

-----------------------------------------------------------------------------
(* Properties of the cache *)

\* C9: get after a successful set of the same key (no expiry, no write in
\* between) returns the value that was set.
C9_RoundTrip ==
    (call.op = "get" /\ ~call.failed /\ written[call.key] # None)
        => /\ call.raised = "none"
           /\ call.value = written[call.key][1]

\* what a failed call of each operation returns
StatedDefault(c) ==
    CASE c.op = "get" -> c.value = c.default
      [] c.op \in {"set", "delete", "exists", "expire", "clear_all"} -> c.flag = FALSE
      [] c.op = "ttl" -> c.count = -1
      [] c.op = "clear_pattern" -> c.count = 0
      [] OTHER -> FALSE

\* C10: a public operation that fails (no connection, or a backend error) raises
\* nothing, returns its stated default and leaves the store as it was.
C10_FailOpen ==
    [][(call'.op # "none" /\ call'.failed)
          => /\ call'.raised = "none"
             /\ StatedDefault(call')
             /\ store' = store]_vars

\* get has failed on a key that holds a value and has answered the default 0
C10_GetFailedOnHeldKey ==
    /\ call.op = "get" /\ call.failed
    /\ call.default = PyInt(0) /\ call.value = PyInt(0)
    /\ written[call.key] # None
    /\ ~redis_cache.is_connected

\* C11: get and set never raise, whatever bytes the key holds and whatever value
\* is to be stored.
C11_NeverRaises == call.op \in {"get", "set"} => call.raised = "none"

\* C12: get returns, for whatever the key holds, the JSON value if the bytes are
\* JSON, otherwise the unpickled object if they are a pickle, otherwise the text.
C12_OrderedFallback ==
    (call.op = "get" /\ ~call.failed /\ store[_make_key(call.key)] # NoEntry)
        => LET b == store[_make_key(call.key)].val IN
           /\ call.raised = "none"
           /\ call.value = IF b.f = "text" THEN PyStr(b.s) ELSE Payload(b)

\* C13: get on a key the store does not hold (never set, expired or deleted)
\* returns the supplied default.
C13_MissReturnsDefault ==
    (call.op = "get" /\ store[_make_key(call.key)] = NoEntry)
        => /\ call.raised = "none"
           /\ call.value = call.default

\* get has reached the store, found no such key and answered the default 0
C13_MissAnswered ==
    /\ call.op = "get" /\ ~call.failed /\ redis_cache.is_connected
    /\ store[_make_key(call.key)] = NoEntry
    /\ call.default = PyInt(0) /\ call.value = PyInt(0)

\* C14: after a successful set(k, v, ttl=1), exists(k) answers true at once, and
\* false once the second has passed: the key is stored with TTL 1, the clock
\* removes it when 1 s or more go by, and exists answers whether the key is held.
C14_ExistsUntilExpiry ==
    [][/\ (call.op = "set" /\ call.flag /\ call.ttl = Some(1)
           /\ call'.op = "exists" /\ call'.key = call.key /\ ~call'.failed)
              => call'.flag
       /\ (call'.op = "set" /\ call'.flag /\ call'.ttl = Some(1))
              => store'[_make_key(call'.key)].ttl = 1
       /\ ticks' = ticks + 1
              => \A k \in StoreKeys : store[k].ttl = 1 => store'[k] = NoEntry
       /\ (call'.op = "exists" /\ ~call'.failed /\ store[_make_key(call'.key)] = NoEntry)
              => ~call'.flag]_vars

\* exists has answered true on a key that has one second left
C14_ExistsBeforeExpiry ==
    /\ call.op = "exists" /\ call.flag /\ ~call.failed
    /\ store[_make_key(call.key)].ttl = 1
    /\ written[call.key] # None

\* C15: every entry written by set has a finite TTL, with or without a ttl
\* argument.
C15_SetAlwaysExpires ==
    [][(call'.op = "set" /\ call'.flag)
          => /\ store'[_make_key(call'.key)] # NoEntry
             /\ store'[_make_key(call'.key)].ttl >= 1]_vars

\* set without a ttl argument has written the key with the default TTL
C15_DefaultTtlWritten ==
    /\ call.op = "set" /\ call.flag /\ call.ttl = None
    /\ store[_make_key(call.key)].ttl = CACHE_TTL

\* C16: set writes the key with the TTL given, whatever integer it is, and with
\* CACHE_TTL only when none is given.
C16_TtlAsGiven ==
    (call.op = "set" /\ call.flag)
        => store[_make_key(call.key)].ttl
               = (IF call.ttl = None THEN CACHE_TTL ELSE call.ttl[1])

\* C17 as claimed: ttl answers -1 for an absent key and on failure, and the
\* remaining TTL of a key that is held.
C17_AbsentIsMinusOne ==
    call.op = "ttl" =>
        LET e == store[_make_key(call.key)] IN
        IF call.failed \/ e = NoEntry THEN call.count = -1 ELSE call.count = e.ttl

\* C17, amended: ttl answers -1 when the call fails, -2 when the store does not
\* hold the key, and the remaining TTL of a key that is held.
C17_TtlAnswers ==
    call.op = "ttl" =>
        LET e == store[_make_key(call.key)] IN
        /\ call.raised = "none"
        /\ call.failed => call.count = -1
        /\ (~call.failed /\ e = NoEntry) => call.count = -2
        /\ (~call.failed /\ e # NoEntry) => call.count = e.ttl

\* ttl has reached the store, which does not hold the key, and has answered -2
C17_AbsentAnswered ==
    /\ call.op = "ttl" /\ ~call.failed /\ redis_cache.is_connected
    /\ store[_make_key(call.key)] = NoEntry
    /\ call.count = -2

-----------------------------------------------------------------------------
(* Properties of the namespace *)

\* the store key starts with the prefix
HasPrefix(k) ==
    /\ Len(k) >= Len(CACHE_PREFIX)
    /\ SubSeq(k, 1, Len(CACHE_PREFIX)) = CACHE_PREFIX

PrefixedKeys == {k \in StoreKeys : HasPrefix(k)}

\* every key and every pattern the operations send carries the prefix
KeysCarryPrefix ==
    /\ \A key \in LogicalKeys \cup Patterns : HasPrefix(_make_key(key))
    /\ \A pat \in DOMAIN Matching : HasPrefix(pat) /\ Matching[pat] \subseteq PrefixedKeys

\* C18: every key an operation reads, writes or deletes carries CACHE_PREFIX,
\* and the keys of the store without the prefix never change.
C18_NamespaceIsolation ==
    [][/\ KeysCarryPrefix
       /\ \A k \in StoreKeys \ PrefixedKeys : store'[k] = store[k]]_vars

\* a clear_pattern("*") has deleted keys while the other tenant's key, which the
\* bare pattern would match, is still there
C18_ForeignKeySurvives ==
    /\ call.op = "clear_pattern" /\ call.key = "*" /\ call.count >= 1
    /\ \A k \in ForeignKeys : store[k] # NoEntry /\ GlobMatch(call.key, k)

\* the logical keys each glob matches
LogicalMatching == [g \in Patterns |-> {k \in LogicalKeys : GlobMatch(g, k)}]

\* C19: a clear_pattern(p) that succeeds deletes every held key whose logical key
\* matches p, returns how many that were, and leaves every other key as it was.
C19_ClearPatternExact ==
    [][(call'.op = "clear_pattern" /\ ~call'.failed) =>
          LET hit == {_make_key(k) : k \in {h \in LogicalMatching[call'.key] :
                                                store[_make_key(h)] # NoEntry}}
          IN  /\ \A k \in hit : store'[k] = NoEntry
              /\ call'.count = Cardinality(hit)
              /\ \A k \in StoreKeys \ hit : store'[k] = store[k]]_vars

\* clear_pattern("user:*") has deleted the two user keys and left key k
C19_TwoDeleted ==
    /\ call.op = "clear_pattern" /\ call.key = "user:*" /\ call.count = 2
    /\ store[_make_key("k")] # NoEntry
    /\ store[_make_key("user:1")] = NoEntry /\ store[_make_key("user:2")] = NoEntry

\* C20: after clear_all has returned true no key with the prefix is left, and it
\* returns true whenever its store calls succeed, also with nothing to delete.
C20_ClearAllEmpties ==
    [][/\ (call'.op = "clear_all" /\ call'.flag)
              => \A k \in PrefixedKeys : store'[k] = NoEntry
       /\ (call'.op = "clear_all" /\ ~call'.failed) => call'.flag]_vars

\* clear_all has returned true after deleting every key of the namespace
C20_AllDeleted ==
    /\ call.op = "clear_all" /\ call.flag /\ call.count >= 2
    /\ \A k \in PrefixedKeys : store[k] = NoEntry

-----------------------------------------------------------------------------
(* Properties of the memoisation helpers *)

\* C21: of two calls in sequence for the same key with the same pure function,
\* the second is a hit: the function runs at most once in the two calls and the
\* second call returns what the first returned, whatever value that is.
C21_SecondCallHits ==
    \A p \in Slots :
        LET r == memo.c[p] IN
        (/\ r.pc = "done" /\ ~r.anyfail
         /\ r.prev.ok /\ r.prev.key = r.key /\ r.prev.fn = r.fn
         /\ memo.last = r.prev
         /\ \A q \in Slots \ {p} : memo.c[q].pc = "idle")
            => /\ r.raised = "none"
               /\ r.prev.fetched + r.fetched <= 1
               /\ r.result = r.prev.result

\* C22: with the store down during every store call of it, a call of
\* get_cached_or_fetch or of a function wrapped by cache_result runs the
\* function exactly once, returns its value and raises nothing.
C22_AlwaysMissWhenDown ==
    \A p \in Slots :
        LET r == memo.c[p] IN
        (r.pc = "done" /\ r.alldown)
            => /\ r.fetched = 1
               /\ r.result = r.fn
               /\ r.raised = "none"

\* a wrapped call has returned its function's value with the store down throughout
C22_WrappedCallServed ==
    \E p \in Slots :
        LET r == memo.c[p] IN
        /\ r.pc = "done" /\ r.alldown /\ r.anyfail /\ r.kind = "wrap"
        /\ r.fetched = 1 /\ r.result = PySet("1,2")
        /\ ~redis_cache.is_connected
        /\ store = AbsentStore

\* C23: nothing keeps two callers from both computing: each call runs its
\* function at most once, and a set that succeeds leaves the key with the value
\* of the caller that made it, so the last set decides what the cache holds.
C23_LastSetWins ==
    [][\A p \in Slots :
          /\ memo'.c[p].fetched <= 1
          /\ (memo.c[p].pc = "set" /\ memo'.c[p].pc = "done"
               /\ memo'.c[p].raised = "none" /\ ~memo'.c[p].anyfail)
                 => store'[_make_key(memo.c[p].key)].val = Serialize(memo.c[p].fn).bytes]_vars

\* two callers of the same key have both missed and both computed; the cache
\* holds the value of the one whose set came last, not the other one's
C23_ComputedTwice ==
    \E p, q \in Slots :
        /\ p # q /\ memo.c[p].key = memo.c[q].key
        /\ memo.c[p].pc = "done" /\ memo.c[q].pc = "done"
        /\ memo.c[p].fetched = 1 /\ memo.c[q].fetched = 1
        /\ ~memo.c[p].anyfail /\ ~memo.c[q].anyfail
        /\ memo.c[p].fn = PyInt(5) /\ memo.c[q].fn = PySet("1,2")
        /\ store[_make_key(memo.c[q].key)].val = Serialize(memo.c[q].fn).bytes

\* C24: two calls of the wrapped function with equal arguments derive the same
\* key, in whatever order the keyword arguments are written and whichever
\* process derives it, so the second of two calls in sequence finds the value
\* the first one cached.
C24_SameKeySameCall ==
    \A p \in Slots :
        LET r == memo.c[p] IN
        (/\ r.pc = "done" /\ r.kind = "wrap" /\ ~r.anyfail /\ r.raised = "none"
         /\ r.prev.ok /\ r.prev.key \in DerivedKeys
         /\ r.fn = PyInt(5) /\ r.prev.fn = r.fn)
            => /\ r.key = r.prev.key
               /\ r.fetched = 0

-----------------------------------------------------------------------------
(* Properties of the connector *)

Connected(self) == self.is_connected /\ self.redis_client

\* C25: _ensure_connection makes no connect() and changes nothing when the
\* connector is connected, makes exactly one connect() when it is not, and a
\* second call right after the first changes nothing the first did not.
C25_EnsureIdempotent ==
    [][/\ call'.op = "stats" =>
             IF Connected(redis_cache)
             THEN call'.count = 0 /\ redis_cache' = redis_cache
             ELSE call'.count = 1
       /\ \A e \in Env :
             LET once == _ensure_connection(redis_cache, e)
                 twice == _ensure_connection(once.self, e)
             IN  /\ twice.self = once.self
                 /\ ~once.raised => twice.connects = 0]_vars

\* get_cache_stats has found the connector connected and has not connected again
C25_NoReconnect ==
    /\ call.op = "stats" /\ call.count = 0 /\ call.flag
    /\ Connected(redis_cache)

\* the public operations of RedisCache
CacheOps == {"get", "set", "delete", "exists", "expire", "ttl", "clear_pattern", "clear_all"}

\* C26: a connect() that fails raises and leaves the connector disconnected; the
\* operation that needed it raises nothing and returns its default; and while
\* the connector is disconnected every operation connects again, so the first
\* one that finds the store reachable succeeds.
C26_LazyReconnect ==
    [][/\ LET c == connect(redis_cache, "down") IN c.raised /\ ~c.self.is_connected
       /\ (call'.op \in CacheOps /\ ~redis_cache.is_connected /\ ~redis_cache'.is_connected)
              => /\ call'.raised = "none"
                 /\ call'.failed
                 /\ StatedDefault(call')
       /\ ~redis_cache.is_connected =>
              /\ \A e \in Env : _ensure_connection(redis_cache, e).connects = 1
              /\ LET g == cache_exists(redis_cache, store, "k", "ok")
                 IN  g.self.is_connected /\ ~g.failed]_vars

\* exists has failed on a connect() that failed: the client is there, the flag
\* is down, and the answer is False although the key is held
C26_ConnectFailed ==
    /\ call.op = "exists" /\ call.failed /\ ~call.flag
    /\ redis_cache.redis_client /\ ~redis_cache.is_connected
    /\ written[call.key] # None

-----------------------------------------------------------------------------
(* Properties of the client identifier and of the allow-list *)

\* C27: get_client_ip answers the trimmed first entry of X-Forwarded-For when
\* that header is present and not empty; else X-Real-IP when present and not
\* empty; else the peer's host when there is a peer; else "unknown".
C27_ClientIpPriority ==
    probe.op = "get_client_ip" =>
        LET r == probe.request
            first == [v \in ForwardedValues |->
                        CASE v = "10.0.0.1" -> "10.0.0.1"
                          [] v = "10.0.0.1, 10.0.0.2" -> "10.0.0.1"
                          [] v = " 10.0.0.3 ,10.0.0.1" -> "10.0.0.3"
                          [] OTHER -> ""]
        IN  probe.client_ip =
               Some(IF r.forwarded_for \notin {None, Some("")} THEN first[r.forwarded_for[1]]
                    ELSE IF r.real_ip \notin {None, Some("")} THEN r.real_ip[1]
                    ELSE IF r.client # None THEN r.client[1]
                    ELSE "unknown")

\* X-Forwarded-For was sent empty and the answer is the X-Real-IP header
C27_EmptyForwardedSkipped ==
    /\ probe.op = "get_client_ip"
    /\ probe.request.forwarded_for = Some("")
    /\ probe.request.real_ip = Some("10.0.0.2")
    /\ probe.client_ip = Some("10.0.0.2")

\* C27 as stated: a header that is present decides, whatever its value
C27_PresentHeaderWins ==
    probe.op = "get_client_ip" =>
        LET r == probe.request
            first == [v \in ForwardedValues |->
                        CASE v = "10.0.0.1" -> "10.0.0.1"
                          [] v = "10.0.0.1, 10.0.0.2" -> "10.0.0.1"
                          [] v = " 10.0.0.3 ,10.0.0.1" -> "10.0.0.3"
                          [] OTHER -> ""]
        IN  probe.client_ip =
               Some(IF r.forwarded_for # None THEN first[r.forwarded_for[1]]
                    ELSE IF r.real_ip # None THEN r.real_ip[1]
                    ELSE IF r.client # None THEN r.client[1]
                    ELSE "unknown")

\* C28: the operation wrapped by ip_whitelist(allowed_ips) is invoked only for a
\* caller whose client identifier is in allowed_ips, every other call ends
\* with 403, and the check touches neither the store nor the connector.
C28_OnlyAllowedInvoked ==
    [][probe'.op = "ip_whitelist" =>
          LET caller == get_client_ip(probe'.request) IN
          /\ probe'.invoked => caller \in probe'.allowed_ips
          /\ caller \notin probe'.allowed_ips => probe'.outcome = "403"
          /\ store' = store /\ redis_cache' = redis_cache]_vars

-----------------------------------------------------------------------------
(* Properties of the per-endpoint guard *)

\* C29: a call through rate_limit(requests_per_minute=L) that finds its
\* counters under the limits (here: not yet in the store, no call failed)
\* invokes the wrapped operation and answers 200, with the endpoint's limit L
\* in force when it is given and the global limit otherwise.
C29_UnderLimitInvoked ==
    \A p \in Slots :
        LET r == req[p] IN
        (/\ r.kind = "ep" /\ r.pc = "done" /\ r.fails = ""
         /\ store[_make_key(EndpointMinuteKey(r.client, r.func))] = NoEntry
         /\ store[_make_key(EndpointHourKey(r.client, r.func))] = NoEntry)
            => /\ r.called
               /\ r.outcome = "200"
               /\ r.minute_limit \in {2, RATE_LIMIT_PER_MINUTE}

\* C30: a call through the decorator whose store calls have all failed
\* invokes the wrapped operation and raises nothing.
C30_EndpointFailsOpen ==
    \A p \in Slots :
        (req[p].kind = "ep" /\ req[p].pc = "done" /\ req[p].fails = "all")
            => /\ req[p].called
               /\ req[p].raised = "none"

-----------------------------------------------------------------------------
(* Properties of the middleware's order of steps *)

\* C31: call_next is invoked only by a request whose check_rate_limit has
\* returned allow, and at most once by a request; the step that denies a
\* request answers 429, has not invoked call_next and leaves the store alone.
C31_CheckThenRespond ==
    [][\A p \in Slots :
          LET r == req[p]
              s == req'[p]
          IN  /\ (s.called /\ ~r.called) => (r.pc = "mw_call_next" /\ r.allowed)
              /\ (r.pc = "mw_call_next" /\ s.pc # r.pc) => (~r.called /\ s.called)
              /\ (s.outcome = "429" /\ r.outcome # "429")
                    => /\ ~s.called /\ s.pc = "done"
                       /\ store' = store]_vars

\* one request was denied without call_next, another went through call_next
C31_DeniedAndServed ==
    \E p, q \in Slots :
        /\ req[p].kind = "mw" /\ req[p].outcome = "429" /\ ~req[p].called
        /\ req[q].kind = "mw" /\ req[q].outcome = "200" /\ req[q].called /\ req[q].allowed

-----------------------------------------------------------------------------
(* Properties of get_cache_stats *)

\* C32: get_cache_stats raises nothing; with the store reachable it answers
\* connected = True with the six statistics, and on any failure it answers
\* exactly the two keys connected (False) and error.
C32_StatsNeverRaises ==
    [][LET six == {"redis_version", "used_memory", "connected_clients",
                   "total_commands_processed", "keyspace_hits", "keyspace_misses"}
           good(r) == r.raised = "none" /\ r.connected /\ r.fields = six \cup {"connected"}
           bad(r) == r.raised = "none" /\ ~r.connected /\ r.fields = {"connected", "error"}
       IN  /\ call'.op = "stats" =>
                 /\ call'.raised = "none"
                 /\ IF call'.flag THEN call'.fields = six \cup {"connected"}
                                  ELSE call'.fields = {"connected", "error"}
           /\ good(get_cache_stats(redis_cache, "ok"))
           /\ \A e \in Env \ {"ok"} : bad(get_cache_stats(redis_cache, e))]_vars

\* the connector's flag is up, the store no longer answers, and the stats
\* query has answered connected = False with the error
C32_StatsFailedOpen ==
    /\ call.op = "stats" /\ ~call.flag /\ call.raised = "none"
    /\ call.fields = {"connected", "error"}
    /\ redis_cache.is_connected

-----------------------------------------------------------------------------
(* Properties of the router factory *)

\* C33: create_main_router raises nothing and comes to return an APIRouter,
\* whatever the directory holds; it never imports __init__.py or a file whose
\* name starts with '_'; the router it returns holds the routes of exactly the
\* other files that import and register, the failing ones being skipped.
C33_FactoryAlwaysReturns ==
    /\ [](/\ router.raised = "none"
          /\ router.imported \subseteq {"agents_route.py", "health.py"}
          /\ router.pc = "returned" =>
                /\ router.returned = "APIRouter"
                /\ router.routes = {f \in {"agents_route.py", "health.py"} :
                                       router.dir[f] = "router"})
    /\ <>(router.pc = "returned")

\* the router was returned with one file registered, one file whose import
\* failed skipped, and the private file left alone
C33_FailureSkipped ==
    /\ router.pc = "returned"
    /\ router.dir["agents_route.py"] = "Exception" /\ "agents_route.py" \in router.imported
    /\ router.routes = {"health.py"}
    /\ router.dir["_private.py"] = "Exception" /\ "_private.py" \notin router.imported

-----------------------------------------------------------------------------
(* Properties of the counters over whole runs *)

\* C34: between two expiries of its counters, with no store failure, a client
\* is allowed at most RATE_LIMIT_PER_MINUTE requests, however its requests
\* interleave.
C34_CapPerWindow ==
    \A c \in Clients : clean => allowed[c] <= RATE_LIMIT_PER_MINUTE

\* a check of client c is between its first store call and its return
Checking(c) ==
    \E p \in Slots : req[p].client = c /\ req[p].pc \in {"mw_minute", "mw_hour", "mw_incr"}

-----------------------------------------------------------------------------
(* Properties of the connector under concurrent coroutines *)

\* C36: every store command is sent while the connected flag is up, also when
\* disconnect() runs between the awaits of an operation.
C36_CommandsOnlyWhenConnected ==
    \A t \in Workers : tasks[t].pc \in {"command", "second"} => tasks[t].up

\* C37: while one coroutine is inside connect() waiting for the ping, no other
\* coroutine is inside connect().
C37_SingleConnect ==
    \A t, u \in Workers : (tasks[t].pc = "ping" /\ tasks[u].pc = "ping") => t = u

-----------------------------------------------------------------------------
(* Invariant of the connector's fields *)

\* C38: whenever the connected flag is up the connector holds a client handle
\* (and the pool it was made from).
C38_FlagImpliesClient ==
    redis_cache.is_connected => (redis_cache.redis_client /\ redis_cache.connection_pool)

\* the flag is up with a client held: a get has gone through connect() and
\* has been answered, and a disconnect() is waiting for close()
C38_ConnectedBeforeClose ==
    \E t, u \in Workers :
        /\ tasks[t].op = "get" /\ tasks[t].pc = "done" /\ ~tasks[t].failed
        /\ tasks[u].pc = "close"
        /\ redis_cache.is_connected /\ redis_cache.redis_client

-----------------------------------------------------------------------------
(* Properties of the Server class *)

\* C39: there is never more than one Server instance and a construction
\* changes neither app nor _server nor _config once the first one has set
\* them; start() raises RuntimeError and starts nothing exactly when config()
\* has not been called since the last run() or start() finished; and when a
\* run() or start() has finished, however it ended, _server and _config are
\* None.
C39_SingletonAndCleanup ==
    [][/\ server'.instances <= 1
       /\ (server'.last.op = "Server" /\ server._initialized)
             => /\ server'.app = server.app
                /\ server'._server = server._server
                /\ server'._config = server._config
       /\ (server'.last.op = "start" /\ server.running = "none")
             => /\ (server'.last.raised = "RuntimeError") = ~server.configured
                /\ ~server.configured => (~server'.last.started /\ server'.running = "none")
       /\ (server.running # "none" /\ server'.running = "none")
             => (server'._server = None /\ server'._config = None)]_vars

\* start() has raised RuntimeError on the one instance, which has been
\* constructed with both apps and keeps the first, and holds no configuration
C39_StartRefused ==
    /\ server.last.op = "start" /\ server.last.raised = "RuntimeError"
    /\ server.instances = 1 /\ server.app = Some("app1") /\ server.given = Apps
    /\ server._config = None /\ server._server = None
    /\ server.last.ended = "none"

====
